---- MODULE Spec2Model ----
(***************************************************************************)
(* node-webcodecs: the VideoEncoder session.                               *)
(*                                                                         *)
(*  - the TypeScript wrapper VideoEncoder (src/src/AudioData.ts)           *)
(*  - the synchronous native encoder VideoEncoderNative                    *)
(*    (src/unnamed/part_000), driving the FFmpeg codec engine              *)
(*  - the worker thread and job queue of VideoEncoderAsync                 *)
(*    (src/unnamed/part_001 and the WorkerThread/Encode code of            *)
(*    src/thoughts/shared/plans/2025-12-02-worker-thread-and-api-          *)
(*    improvements.md)                                                     *)
(***************************************************************************)
EXTENDS Integers, Sequences, FiniteSets, TLC

\* ---------------------------------------------------------------- bounds
\* encode() jobs, flush() calls and configure() calls that reach the native
\* encoder, on the machine without accelerators
MaxJobs == 2
MaxFlush == 2
MaxCfg == 2
\* the same on the machine with accelerators
MaxHwJobs == 1
MaxHwCfg == 1

Min(a, b) == IF a < b THEN a ELSE b
Max(a, b) == IF a > b THEN a ELSE b

\* ------------------------------------------------------------- vocabulary
Prefs == {"no-preference", "prefer-hardware", "prefer-software"}
KnownCodecs == {"vp8"}
Codecs == {"vp8", "bogus"}
Widths == {0, 64}

\* The scalabilityMode of a request: none, or a mode with spatial layers
SvcRequests == {<<>>, <<"L", "3", "T", "3">>}

\* VideoEncoderConfig as far as configure() looks at it
Configs == [codec : Codecs, width : Widths, pref : Prefs, svc : SvcRequests]

\* What the platform answers during one native Configure call:
\*   sel     HWAccel::selectEncoder(codec, pref): a hardware encoder, a
\*           hardware encoder that needs a frames pool, a software encoder,
\*           or none
\*   byName  avcodec_find_encoder_by_name finds an encoder
\*   dev     HWAccel::createHWDeviceContext returns a context (not null)
\*   frames  av_hwframe_ctx_alloc returns a context
\*   open1   the first avcodec_open2 succeeds
\*   swSel   selectEncoder(codec, PreferSoftware) finds an encoder
\*   open2   the second avcodec_open2 succeeds
ConfigureEnvsAll ==
    [sel : {"hw", "hwframes", "sw", "none"}, byName : BOOLEAN, dev : BOOLEAN,
     frames : BOOLEAN, open1 : BOOLEAN, swSel : BOOLEAN, open2 : BOOLEAN]

\* The answers that are never consulted are fixed, so that every element
\* stands for a different run of Configure.
ConfigureEnvs ==
    {e \in ConfigureEnvsAll :
        /\ (e.sel # "none" => e.byName)
        /\ (e.sel \notin {"hw", "hwframes"} => e.dev /\ e.swSel /\ e.open2)
        /\ (~(e.sel = "hwframes" /\ e.dev) => e.frames)
        /\ (e.open1 => e.swSel /\ e.open2)
        /\ (~e.swSel => e.open2)
        /\ (e.sel = "none" /\ ~e.byName => e.open1)}

\* The machines the session is run on: one without any accelerator, whose
\* encoder buffers frames and may fail on any call, and one with accelerators,
\* whose encoder turns every accepted frame into a packet at once.
Machines == {"software", "accelerated"}

JobBudget(m) == IF m = "software" THEN MaxJobs ELSE MaxHwJobs
CfgBudget(m) == IF m = "software" THEN MaxCfg ELSE MaxHwCfg

\* Chosen by selectEncoder for a preference: with PreferSoftware the
\* accelerator enumeration is skipped.
EncoderInfos(m, pref) ==
    IF pref = "prefer-software" \/ m = "software" THEN {"sw", "none"}
    ELSE {"hw", "hwframes", "sw", "none"}

\* ------------------------------------------------------------- the engine
\* One opened AVCodecContext: the frames it has accepted and not yet turned
\* into packets, and whether it was put into draining mode by a NULL frame.
EngInit == [buf |-> <<>>, draining |-> FALSE]

\* avcodec_send_frame(ctx, frame): refused with AVERROR_EOF once the encoder
\* is draining, refused on a context that was never opened, and otherwise
\* accepted unless the engine reports an error for this frame (ok = FALSE).
SendFrameOk(ctx, e, ok) == ctx = "open" /\ ~e.draining /\ ok

\* The chunk events of the first k buffered frames
RECURSIVE Chunks(_, _)
Chunks(buf, k) ==
    IF k = 0 \/ buf = <<>> THEN <<>>
    ELSE <<[type |-> "chunk", job |-> Head(buf)]>> \o Chunks(Tail(buf), k - 1)

Range(s) == {s[i] : i \in 1..Len(s)}

Drop(s, k) == SubSeq(s, Min(k, Len(s)) + 1, Len(s))

\* --------------------------------------------------------------- the heap
\* Number of live allocations of each kind made by the session, and whether
\* anything was released twice.
HeapInit == [ctx |-> 0, dev |-> 0, frames |-> 0, sws |-> 0, doubleFree |-> FALSE]

IsHeld(p) == p # "null"

\* Releasing what pointer p refers to: a live object is released, a dangling
\* pointer is a double release.
FreeCtx(h, p) ==
    IF p \in {"alloc", "open"} THEN [h EXCEPT !.ctx = @ - 1]
    ELSE IF p = "dangling" THEN [h EXCEPT !.doubleFree = TRUE] ELSE h
FreeDev(h, p) ==
    IF p = "live" THEN [h EXCEPT !.dev = @ - 1]
    ELSE IF p = "dangling" THEN [h EXCEPT !.doubleFree = TRUE] ELSE h
FreeFrames(h, p) ==
    IF p = "live" THEN [h EXCEPT !.frames = @ - 1]
    ELSE IF p = "dangling" THEN [h EXCEPT !.doubleFree = TRUE] ELSE h
FreeSws(h, p) ==
    IF p = "live" THEN [h EXCEPT !.sws = @ - 1]
    ELSE IF p = "dangling" THEN [h EXCEPT !.doubleFree = TRUE] ELSE h

B2N(b) == IF b THEN 1 ELSE 0

\* ------------------------------------------------------ scalability (SVC)
\* A scalabilityMode string is the sequence of its characters.
Digits == {"0", "1", "2", "3", "4", "5", "6", "7", "8", "9"}

\* std::stoi of one digit
DigitValue(c) == CHOOSE d \in 0..9 : ToString(d) = c

OptSeq(present, str) == IF present THEN str ELSE <<>>

\* std::regex_match(mode, "([LS])(\d)T(\d)(h)?(_KEY)?(_SHIFT)?"): the whole
\* string has to match
RegexMatches(mode) ==
    /\ Len(mode) >= 4
    /\ mode[1] \in {"L", "S"}
    /\ mode[2] \in Digits
    /\ mode[3] = "T"
    /\ mode[4] \in Digits
    /\ \E h, k, sh \in BOOLEAN :
         SubSeq(mode, 5, Len(mode)) =
             OptSeq(h, <<"h">>) \o OptSeq(k, <<"_", "K", "E", "Y">>)
                 \o OptSeq(sh, <<"_", "S", "H", "I", "F", "T">>)

\* ScalabilityConfig config = {1, 1, false, ...}
DefaultScalability == [spatialLayers |-> 1, temporalLayers |-> 1, isSimulcast |-> FALSE]

\* parseScalabilityMode
parseScalabilityMode(mode) ==
    IF mode = <<>> THEN DefaultScalability
    ELSE IF RegexMatches(mode)
    THEN [spatialLayers |-> DigitValue(mode[2]),
          temporalLayers |-> DigitValue(mode[4]),
          isSimulcast |-> (mode[1] = "S")]
    ELSE DefaultScalability

\* Faulty variant: the upper limit on temporal layers is missing
SupportsAnyTemporalDepth(mode) ==
    IF mode = <<>> THEN TRUE
    ELSE LET c == parseScalabilityMode(mode)
         IN ~(c.spatialLayers > 1 \/ c.isSimulcast) /\ ~(c.temporalLayers < 1)

\* isScalabilityModeSupported
isScalabilityModeSupported(mode) ==
    IF mode = <<>> THEN TRUE
    ELSE LET c == parseScalabilityMode(mode)
         IN IF c.spatialLayers > 1 \/ c.isSimulcast THEN FALSE
            ELSE IF c.temporalLayers < 1 \/ c.temporalLayers > 3 THEN FALSE
            ELSE TRUE

\* static_cast<int>(bitrate_ * num / den / 1000) for a bitrate that is not
\* negative: the share num/den of the bitrate in kbit/s, truncated
ShareKbps(bitrate, num, den) == (bitrate * num) \div (den * 1000)

NoTsParameters == [layers |-> 0, bitrates |-> <<>>, decimators |-> <<>>]

\* Faulty variant: the base layer of two gets half of the bitrate
TsParametersEvenSplit(layers, bitrate) ==
    IF layers = 2
    THEN [layers |-> 2,
          bitrates |-> <<ShareKbps(bitrate, 5, 10), ShareKbps(bitrate, 1, 1)>>,
          decimators |-> <<2, 1>>]
    ELSE IF layers = 3
    THEN [layers |-> 3,
          bitrates |-> <<ShareKbps(bitrate, 25, 100), ShareKbps(bitrate, 5, 10),
                         ShareKbps(bitrate, 1, 1)>>,
          decimators |-> <<4, 2, 1>>]
    ELSE NoTsParameters

\* The ts-parameters string built for libvpx: ts_number_layers,
\* ts_target_bitrate (kbit/s) and ts_rate_decimator
TsParameters(layers, bitrate) ==
    IF layers = 2
    THEN [layers |-> 2,
          bitrates |-> <<ShareKbps(bitrate, 6, 10), ShareKbps(bitrate, 1, 1)>>,
          decimators |-> <<2, 1>>]
    ELSE IF layers = 3
    THEN [layers |-> 3,
          bitrates |-> <<ShareKbps(bitrate, 25, 100), ShareKbps(bitrate, 5, 10),
                         ShareKbps(bitrate, 1, 1)>>,
          decimators |-> <<4, 2, 1>>]
    ELSE NoTsParameters

\* The scalability part of VideoEncoderNative::Configure: what it throws or
\* hands to the encoder named encoderName
ConfigureScalability(mode, bitrate, encoderName) ==
    IF mode = <<>>
    THEN [threw |-> FALSE, temporalLayers |-> 1, ts |-> NoTsParameters]
    ELSE IF ~isScalabilityModeSupported(mode)
    THEN [threw |-> TRUE, temporalLayers |-> 1, ts |-> NoTsParameters]
    ELSE LET c == parseScalabilityMode(mode)
         IN [threw |-> FALSE,
             temporalLayers |-> c.temporalLayers,
             ts |-> IF c.temporalLayers > 1 /\ encoderName = "libvpx"
                    THEN TsParameters(c.temporalLayers, bitrate)
                    ELSE NoTsParameters]

\* ------------------------------------------------- VideoEncoderNative
NativeInit ==
    [codecCtx |-> "null", codec |-> "null", swsCtx |-> "null",
     hwType |-> "None", hwDeviceCtx |-> "null", hwFramesCtx |-> "null",
     configured |-> FALSE, width |-> 0]

\* The result of one native call
Ret(n, e, h, emits, threw, opens, frees, ub) ==
    [nat |-> n, eng |-> e, heap |-> h, emits |-> emits, threw |-> threw,
     opens |-> opens, frees |-> frees, ub |-> ub]

\* Faulty variant: the fallback is taken whatever the preference is
FallbackIgnoresPreference(hwType, pref) == hwType # "None"

\* The fallback is taken when a hardware encoder was selected and the
\* preference is not PreferHardware.
FallbackAllowed(hwType, pref) == hwType # "None" /\ pref # "prefer-hardware"

\* Faulty variant: the fallback forgets to reset hwType_
SoftwarePlanKeepsType(n) == [n EXCEPT !.codec = "sw", !.codecCtx = "alloc"]

\* The software encoder taken by the fallback: codec_, hwType_ and a freshly
\* allocated context
SoftwarePlan(n) ==
    [n EXCEPT !.codec = "sw", !.hwType = "None", !.codecCtx = "alloc"]

\* VideoEncoderNative::Configure
NativeConfigure(n, e, h, cfg, env) ==
    LET n1 == [n EXCEPT !.width = cfg.width]
    IN
    IF env.sel = "none" /\ ~env.byName
    THEN Ret([n1 EXCEPT !.codec = "null"], e, h, <<>>, TRUE, 0, 0, FALSE)
    ELSE
    LET isHw == env.sel \in {"hw", "hwframes"}
        \* codec_, hwType_ and the freshly allocated context
        n2 == [n1 EXCEPT !.codec = IF isHw THEN "hw" ELSE "sw",
                         !.hwType = IF isHw THEN "HW" ELSE "None",
                         !.codecCtx = "alloc"]
        h2 == [h EXCEPT !.ctx = @ + 1]
        \* hardware device and frames contexts
        devNew == IF env.dev THEN "live" ELSE "null"
        frNew == IF env.sel = "hwframes" /\ env.dev
                 THEN (IF env.frames THEN "live" ELSE "null")
                 ELSE n2.hwFramesCtx
        n3 == IF isHw
              THEN [n2 EXCEPT !.hwDeviceCtx = devNew, !.hwFramesCtx = frNew]
              ELSE n2
        h3 == IF isHw
              THEN [h2 EXCEPT !.dev = @ + B2N(env.dev),
                              !.frames = @ + B2N(env.sel = "hwframes" /\ env.dev /\ env.frames)]
              ELSE h2
    IN
    \* unsupported scalabilityMode: thrown with the context allocated
    IF ~isScalabilityModeSupported(cfg.svc)
    THEN Ret(n3, EngInit, h3, <<>>, TRUE, 0, 0, FALSE)
    ELSE
    IF env.open1
    THEN Ret([n3 EXCEPT !.codecCtx = "open", !.configured = TRUE],
             EngInit, h3, <<>>, FALSE, 1, 0, FALSE)
    ELSE
    LET \* avcodec_free_context(&codecCtx_)
        n4 == [n3 EXCEPT !.codecCtx = "null"]
        h4 == FreeCtx(h3, n3.codecCtx)
    IN
    IF ~FallbackAllowed(n4.hwType, cfg.pref)
    THEN Ret(n4, EngInit, h4, <<>>, TRUE, 1, 1, FALSE)
    ELSE
    LET n5 == [n4 EXCEPT !.hwDeviceCtx = "null", !.hwFramesCtx = "null"]
        h5 == FreeFrames(FreeDev(h4, n4.hwDeviceCtx), n4.hwFramesCtx)
        fr5 == 1 + B2N(IsHeld(n4.hwDeviceCtx)) + B2N(IsHeld(n4.hwFramesCtx))
    IN
    IF ~env.swSel
    THEN Ret(n5, EngInit, h5, <<>>, TRUE, 1, fr5, FALSE)
    ELSE
    LET n6 == SoftwarePlan(n5)
        h6 == [h5 EXCEPT !.ctx = @ + 1]
    IN
    IF env.open2
    THEN Ret([n6 EXCEPT !.codecCtx = "open", !.configured = TRUE],
             EngInit, h6, <<>>, FALSE, 2, fr5, FALSE)
    ELSE Ret([n6 EXCEPT !.codecCtx = "null"], EngInit, FreeCtx(h6, "alloc"),
             <<>>, TRUE, 2, fr5 + 1, FALSE)


\* What the engine answers during one native Encode call:
\*   alloc   av_frame_get_buffer and sws_getContext succeed
\*   send    avcodec_send_frame accepts the frame (unless it is draining)
\*   k       number of packets avcodec_receive_packet hands out before it
\*           stops
\*   rcvErr  it stops with an error instead of EAGAIN
\*   scale   the frame needs a pixel format or size conversion
EncodeEnvsAll ==
    [alloc : BOOLEAN, send : BOOLEAN, k : 0..Max(MaxJobs, MaxHwJobs),
     rcvErr : BOOLEAN, scale : BOOLEAN]

\* The answers machine m can give when n frames are buffered
EncodeEnvs(m, n) ==
    {e \in EncodeEnvsAll :
        /\ e.k <= n + 1
        /\ (~e.alloc => e.send /\ e.k = IF m = "accelerated" THEN n + 1 ELSE 0)
        /\ (~e.alloc => ~e.rcvErr /\ ~e.scale)
        /\ (~e.send => ~e.rcvErr /\ e.k = IF m = "accelerated" THEN n + 1 ELSE 0)
        /\ (m = "accelerated" => e.k = n + 1 /\ ~e.rcvErr)
        /\ (m = "software" => ~e.scale)}

ErrorEvent(job) == [type |-> "error", job |-> job]
FlushEvent == [type |-> "flush", job |-> 0]

\* Faulty variant: a failed avcodec_send_frame also clears configured_
SendFailedUnconfigures(n, e, h, job) ==
    Ret([n EXCEPT !.configured = FALSE], e, h, <<ErrorEvent(job)>>,
        FALSE, 0, 0, FALSE)

\* avcodec_send_frame failed: EmitError and return
SendFailed(n, e, h, job) ==
    Ret(n, e, h, <<ErrorEvent(job)>>, FALSE, 0, 0, FALSE)

\* VideoEncoderNative::Encode
NativeEncode(n, e, h, job, env) ==
    IF ~n.configured
    THEN Ret(n, e, h, <<>>, TRUE, 0, 0, FALSE)
    ELSE IF n.codecCtx \in {"null", "dangling"}
    THEN Ret(n, e, h, <<>>, FALSE, 0, 0, TRUE)
    ELSE IF ~env.alloc
    THEN Ret(n, e, h, <<>>, TRUE, 0, 0, FALSE)
    ELSE
    LET mk == env.scale /\ n.swsCtx = "null"
        n1 == IF mk THEN [n EXCEPT !.swsCtx = "live"] ELSE n
        h1 == IF mk THEN [h EXCEPT !.sws = @ + 1] ELSE h
    IN
    IF ~SendFrameOk(n.codecCtx, e, env.send)
    THEN SendFailed(n1, e, h1, job)
    ELSE
    LET buf1 == Append(e.buf, job)
        k == Min(env.k, Len(buf1))
        emits == Chunks(buf1, k) \o (IF env.rcvErr THEN <<ErrorEvent(job)>> ELSE <<>>)
    IN Ret(n1, [e EXCEPT !.buf = Drop(buf1, k)], h1, emits, FALSE, 0, 0, FALSE)

\* Faulty variant: the completion callback is only called when the encoder
\* was not draining yet
NativeFlushOnce(n, e, h, k) ==
    IF n.configured /\ n.codecCtx = "open"
    THEN LET kk == Min(k, Len(e.buf))
         IN Ret(n, [buf |-> Drop(e.buf, kk), draining |-> TRUE], h,
                Chunks(e.buf, kk) \o (IF e.draining THEN <<>> ELSE <<FlushEvent>>),
                FALSE, 0, 0, FALSE)
    ELSE Ret(n, e, h, <<FlushEvent>>, FALSE, 0, 0, FALSE)

\* Faulty variant: the completion callback is skipped when the engine stopped
\* draining with an error
NativeFlushStopsOnError(n, e, h, k) ==
    IF n.configured /\ n.codecCtx = "open"
    THEN LET kk == Min(k, Len(e.buf))
         IN Ret(n, [buf |-> Drop(e.buf, kk), draining |-> TRUE], h,
                Chunks(e.buf, kk) \o (IF kk < Len(e.buf) THEN <<>> ELSE <<FlushEvent>>),
                FALSE, 0, 0, FALSE)
    ELSE Ret(n, e, h, <<FlushEvent>>, FALSE, 0, 0, FALSE)

\* VideoEncoderNative::Flush: k is the number of packets the engine hands
\* out before avcodec_receive_packet returns a negative value (AVERROR_EOF
\* once everything is drained, an error before that).
NativeFlush(n, e, h, k) ==
    IF n.configured /\ n.codecCtx = "open"
    THEN LET kk == Min(k, Len(e.buf))
         IN Ret(n, [buf |-> Drop(e.buf, kk), draining |-> TRUE], h,
                Chunks(e.buf, kk) \o <<FlushEvent>>, FALSE, 0, 0, FALSE)
    ELSE Ret(n, e, h, <<FlushEvent>>, FALSE, 0, 0, FALSE)

\* VideoEncoderNative::Reset: avcodec_flush_buffers discards the engine's
\* buffers and leaves draining mode when the encoder supports flushing
\* (flushCap), and does nothing otherwise. On a context that was allocated
\* but never opened it reads the missing internal state of the context.
NativeReset(n, e, h, flushCap) ==
    IF n.codecCtx = "open" /\ flushCap
    THEN Ret(n, EngInit, h, <<>>, FALSE, 0, 0, FALSE)
    ELSE Ret(n, e, h, <<>>, FALSE, 0, 0,
             n.codecCtx = "dangling" \/ (n.codecCtx = "alloc" /\ flushCap))

\* Faulty variant: swsCtx_ is not set to nullptr after sws_freeContext
NativeCloseKeepsScaler(n, e, h) ==
    LET h1 == FreeCtx(FreeDev(FreeFrames(FreeSws(h, n.swsCtx), n.hwFramesCtx),
                              n.hwDeviceCtx), n.codecCtx)
        fr == B2N(IsHeld(n.swsCtx)) + B2N(IsHeld(n.hwFramesCtx))
              + B2N(IsHeld(n.hwDeviceCtx)) + B2N(IsHeld(n.codecCtx))
    IN Ret([n EXCEPT !.swsCtx = IF IsHeld(n.swsCtx) THEN "dangling" ELSE "null",
                     !.hwFramesCtx = "null",
                     !.hwDeviceCtx = "null", !.codecCtx = "null",
                     !.configured = FALSE],
           EngInit, h1, <<>>, FALSE, 0, fr, FALSE)

\* VideoEncoderNative::Close
NativeClose(n, e, h) ==
    LET h1 == FreeCtx(FreeDev(FreeFrames(FreeSws(h, n.swsCtx), n.hwFramesCtx),
                              n.hwDeviceCtx), n.codecCtx)
        fr == B2N(IsHeld(n.swsCtx)) + B2N(IsHeld(n.hwFramesCtx))
              + B2N(IsHeld(n.hwDeviceCtx)) + B2N(IsHeld(n.codecCtx))
    IN Ret([n EXCEPT !.swsCtx = "null", !.hwFramesCtx = "null",
                     !.hwDeviceCtx = "null", !.codecCtx = "null",
                     !.configured = FALSE],
           EngInit, h1, <<>>, FALSE, 0, fr, FALSE)

\* VideoEncoderNative::~VideoEncoderNative
NativeDestroy(n, e, h) ==
    LET h1 == FreeCtx(FreeDev(FreeFrames(FreeSws(h, n.swsCtx), n.hwFramesCtx),
                              n.hwDeviceCtx), n.codecCtx)
        fr == B2N(IsHeld(n.swsCtx)) + B2N(IsHeld(n.hwFramesCtx))
              + B2N(IsHeld(n.hwDeviceCtx)) + B2N(IsHeld(n.codecCtx))
    IN Ret(n, e, h1, <<>>, FALSE, 0, fr, FALSE)

\* ------------------------------------------------------ VideoEncoder (TS)
isVideoCodecSupported(codec) == codec \in KnownCodecs

\* Faulty variant: the counter is decremented without the lower limit
OnChunkSizeUnclamped(size) == size - 1

\* VideoEncoder._onChunk: the new value of _encodeQueueSize
OnChunkSize(size) == Max(0, size - 1)

\* VideoEncoder._onError: the new value of _encodeQueueSize
OnErrorSize(size) == size

\* The callbacks of one native call, in order: the counter after them
RECURSIVE SizeAfter(_, _)
SizeAfter(emits, size) ==
    IF emits = <<>> THEN size
    ELSE SizeAfter(Tail(emits),
                   IF Head(emits).type = "chunk" THEN OnChunkSize(size)
                   ELSE IF Head(emits).type = "error" THEN OnErrorSize(size)
                   ELSE size)

CountType(emits, t) == Cardinality({i \in 1..Len(emits) : emits[i].type = t})

\* Faulty variant: the state check is missing
NeverRejects(s) == FALSE

\* Faulty variant: only a closed session is refused
RejectsOnlyClosed(s) == s = "closed"

\* Faulty variant: every session that is not configured is refused
RejectsUnlessConfigured(s) == s # "configured"

\* The state checks at the head of the public methods
ConfigureRejectsState(s) == s = "closed"
EncodeRejectsState(s) == s # "configured"
FlushRejectsState(s) == s # "configured"
ResetRejectsState(s) == s = "closed"
CloseIsNoop(s) == s = "closed"

ConfigureRejectsConfig(cfg) ==
    ~isVideoCodecSupported(cfg.codec) \/ cfg.width <= 0


\* ------------------------------------------------------------------ state
VARIABLES
    machine,            \* the machine the session runs on
    state,              \* VideoEncoder._state
    encodeQueueSize,    \* VideoEncoder._encodeQueueSize
    config,             \* VideoEncoder._config ("null" or a config)
    nativeCreated,      \* VideoEncoder._nativeCreated
    nat,                \* the fields of the VideoEncoderNative object
    eng,                \* the engine state behind codecCtx_
    heap,               \* live allocations of the session
    flushPending,       \* flush() promises that are not settled
    flushDone,          \* flush() promises that were resolved
    pending,            \* jobs accepted by encode() whose result was neither
                        \* delivered nor discarded
    afterFlush,         \* since the last configure(): "none", then "flushed"
                        \* once a flush() resolved, "encoded" once an encode()
                        \* was accepted after that, "reflushed" once a flush()
                        \* resolved after that
    errSeen,            \* an encode error was reported since the last configure()
    last,               \* what the last public call did
    destroyed,          \* the native object was garbage collected
    nextJob,            \* id of the next accepted encode() job
    nCfg                \* configure() calls that reached the native encoder

syncVars == <<machine, state, encodeQueueSize, config, nativeCreated,
              nat, eng, heap, flushPending, flushDone, pending, afterFlush, errSeen,
              last, destroyed, nextJob, nCfg>>

\* The session on a worker thread (VideoEncoderAsync)
VARIABLES
    running,            \* running_
    jobQueue,           \* jobQueue_
    wpc,                \* where the worker thread is: "none" before it is
                        \* started, "top", "wait", "process", "exit"
    job,                \* the job the worker took from the queue
    tsfnOutput,         \* calls queued on tsfnOutput_
    tsfnError,          \* calls queued on tsfnError_
    tsfnFlush,          \* calls queued on tsfnFlush_
    delivered,          \* what the JavaScript callbacks received, in order
    enqueued            \* jobs pushed so far

asyncVars == <<running, jobQueue, wpc, job, tsfnOutput, tsfnError, tsfnFlush,
               delivered, enqueued>>

\* The AudioDecoder wrapper
VARIABLES
    adState,            \* AudioDecoder._state
    adQueueSize,        \* AudioDecoder._decodeQueueSize
    adConfig,           \* AudioDecoder._config is set
    adImmediates,       \* callbacks queued with setImmediate by _onData, each
                        \* holding the chunk its data was decoded from
    adNext,             \* id of the next accepted decode() chunk
    adCut,              \* adNext at the last reset() or close()
    adLast              \* what happened last

audioVars == <<adState, adQueueSize, adConfig, adImmediates, adNext, adCut,
               adLast>>

\* One run of the scalability part of Configure
VARIABLES
    svcMode,            \* the scalabilityMode string of the request
    svcBitrate,         \* bitrate_
    svcEncoder,         \* codec_->name
    svcOut              \* what Configure did: empty before it ran, then its
                        \* one result

svcVars == <<svcMode, svcBitrate, svcEncoder, svcOut>>

\* The VideoEncoder wrapper's choice of native object and its output metadata
VARIABLES
    veAsyncAvailable,   \* native.VideoEncoderAsync exists in the addon
    veState,            \* VideoEncoder._state
    veConfig,           \* VideoEncoder._config: "null" or "set"
    veSentDecoderConfig,\* VideoEncoder._sentDecoderConfig
    veUseAsync,         \* VideoEncoder._useAsync
    veNativeCreated,    \* VideoEncoder._nativeCreated
    veNative,           \* the class of VideoEncoder._native: "none" before it
                        \* is created, then "async" or "sync"
    veKeys,             \* key chunks delivered since the configuration began
                        \* (a successful configure(), reset() or close()),
                        \* counted up to 2
    veEpoch,            \* successful configure() calls so far
    veCalls,            \* calls and chunks so far
    veLast              \* what happened last

veVars == <<veAsyncAvailable, veState, veConfig, veSentDecoderConfig,
            veUseAsync, veNativeCreated, veNative, veKeys, veEpoch, veCalls,
            veLast>>

\* An ImageDecoder constructed from a ReadableStream
VARIABLES
    imgNative,          \* ImageDecoder._native: "undefined" until _initNative
                        \* assigns it, then "open", "closed" after its close()
    imgComplete,        \* ImageDecoder._complete
    imgClosed,          \* ImageDecoder._closed
    imgStream,          \* _handleReadableStream: "reading", "done" after
                        \* _initNative, "failed" after its catch
    imgChunks,          \* chunks read so far
    imgCompleted,       \* the completed promise: "pending", "resolved",
                        \* "rejected"
    imgCalls,           \* public calls so far
    imgLast             \* what happened last

imgVars == <<imgNative, imgComplete, imgClosed, imgStream, imgChunks,
             imgCompleted, imgCalls, imgLast>>

\* One run of the rate-control part of Configure
VARIABLES
    rcRequest,          \* the request and what the platform answers
    rcOut               \* what Configure did: empty before it ran, then its
                        \* outcome

rcVars == <<rcRequest, rcOut>>

\* A VideoFrame and the VideoFrameNative it wraps
VARIABLES
    vfClosed,           \* VideoFrame._closed
    vfNative,           \* VideoFrame._native: "set" or "null"
    vfBuffer,           \* VideoFrame._buffer is set
    vfFields,           \* _format, _codedWidth, _codedHeight, _displayWidth,
                        \* _displayHeight, _visibleRect
    vfn,                \* the VideoFrameNative: frame_, closed_, how often
                        \* its AVFrame was freed, and whether the object was
                        \* destroyed
    vfCalls,            \* calls so far
    vfLast              \* what happened last

frameVars == <<vfClosed, vfNative, vfBuffer, vfFields, vfn, vfCalls, vfLast>>

\* One VideoFrameNative::CopyTo call with a rect
VARIABLES
    rectIn,             \* frame_->width, frame_->height and options.rect
    rectOut             \* what CopyTo did: empty before it ran, then the
                        \* rect after clamping and the path taken

rectVars == <<rectIn, rectOut>>

\* The parts added after the scalability run
restVars == <<veVars, imgVars, rcVars, frameVars, rectVars>>

\* What the steps of each of these parts leave alone
veRest == <<imgVars, rcVars, frameVars, rectVars>>
imgRest == <<veVars, rcVars, frameVars, rectVars>>
rcRest == <<veVars, imgVars, frameVars, rectVars>>
frameRest == <<veVars, imgVars, rcVars, rectVars>>
rectRest == <<veVars, imgVars, rcVars, frameVars>>

vars == <<syncVars, asyncVars, audioVars, svcVars, restVars>>

\* The record of a public call: whether it threw or returned at once, what
\* it released, which callbacks ran during it and what the platform answered.
L0 == [op |-> "none", threw |-> FALSE, noop |-> FALSE,
       frees |-> 0, out |-> {}, errs |-> 0, opens |-> 0,
       pref |-> "no-preference", hwFirst |-> FALSE, open1 |-> FALSE,
       swSel |-> FALSE, open2 |-> FALSE, willing |-> FALSE, ub |-> FALSE,
       drainErr |-> FALSE, why |-> "", devNull |-> FALSE]

SyncInit ==
    /\ machine \in Machines
    /\ state = "unconfigured"
    /\ encodeQueueSize = 0
    /\ config = "null"
    /\ nativeCreated = FALSE
    /\ nat = NativeInit
    /\ eng = EngInit
    /\ heap = HeapInit
    /\ flushPending = 0
    /\ flushDone = 0
    /\ pending = {}
    /\ afterFlush = "none"
    /\ errSeen = FALSE
    /\ last = L0
    /\ destroyed = FALSE
    /\ nextJob = 1
    /\ nCfg = 0

\* The history of flushes and encodes since the last configure()
FlushResolved(a) == IF a = "none" THEN "flushed"
                    ELSE IF a = "encoded" THEN "reflushed" ELSE a
EncodeAccepted(a) == IF a \in {"flushed", "reflushed"} THEN "encoded" ELSE a

Rejected(op) == [L0 EXCEPT !.op = op, !.threw = TRUE]

JobsOf(emits, t) == {emits[i].job : i \in {j \in 1..Len(emits) : emits[j].type = t}}

\* VideoEncoder.configure
Configure(cfg) ==
    /\ ~destroyed
    /\ UNCHANGED <<asyncVars, audioVars, svcVars, restVars>>
    /\ IF ConfigureRejectsState(state) \/ ConfigureRejectsConfig(cfg)
       THEN /\ last' = [Rejected("configure") EXCEPT
                            !.why = IF ConfigureRejectsState(state) THEN "closed"
                                    ELSE IF ~isVideoCodecSupported(cfg.codec)
                                    THEN "codec" ELSE "dims"]
            /\ UNCHANGED <<machine, state, encodeQueueSize, config,
                           nativeCreated, nat, eng, heap, flushPending, flushDone,
                           pending, afterFlush, errSeen, destroyed, nextJob, nCfg>>
       ELSE /\ nCfg < CfgBudget(machine)
            /\ \E env \in ConfigureEnvs :
                 /\ env.sel \in EncoderInfos(machine, cfg.pref)
                 /\ (~isScalabilityModeSupported(cfg.svc) => env.open1)
                 /\ LET r == NativeConfigure(nat, eng, heap, cfg, env)
                    IN /\ nativeCreated' = TRUE
                       /\ nat' = r.nat
                       /\ eng' = r.eng
                       /\ heap' = r.heap
                       /\ nCfg' = nCfg + 1
                       /\ last' = [L0 EXCEPT !.op = "configure",
                                        !.threw = r.threw,
                                        !.frees = r.frees, !.opens = r.opens,
                                        !.pref = cfg.pref,
                                        !.hwFirst = env.sel \in {"hw", "hwframes"},
                                        !.open1 = env.open1,
                                        !.swSel = env.swSel,
                                        !.open2 = env.open2,
                                        !.why = IF ~r.threw THEN ""
                                                ELSE IF env.sel = "none" /\ ~env.byName
                                                THEN "lookup"
                                                ELSE IF ~isScalabilityModeSupported(cfg.svc)
                                                THEN "svc" ELSE "open",
                                        !.devNull = (env.sel \in {"hw", "hwframes"}
                                                     /\ ~env.dev)]
                       /\ IF r.threw
                          THEN UNCHANGED <<state, config, afterFlush, errSeen>>
                          ELSE /\ state' = "configured"
                               /\ config' = cfg
                               /\ afterFlush' = "none"
                               /\ errSeen' = FALSE
            /\ UNCHANGED <<machine, encodeQueueSize, flushPending, flushDone, pending,
                           destroyed, nextJob>>

\* VideoEncoder.encode; frameOk: the VideoFrame still has its native handle
Encode(frameOk) ==
    /\ ~destroyed
    /\ UNCHANGED <<asyncVars, audioVars, svcVars, restVars>>
    /\ IF EncodeRejectsState(state) \/ ~frameOk
       THEN /\ last' = Rejected("encode")
            /\ UNCHANGED <<machine, state, encodeQueueSize, config,
                           nativeCreated, nat, eng, heap, flushPending, flushDone,
                           pending, afterFlush, errSeen, destroyed, nextJob, nCfg>>
       ELSE /\ nextJob <= JobBudget(machine)
            /\ \E env \in EncodeEnvs(machine, Len(eng.buf)) :
                 /\ LET r == NativeEncode(nat, eng, heap, nextJob, env)
                    IN /\ encodeQueueSize' = SizeAfter(r.emits, encodeQueueSize + 1)
                       /\ nat' = r.nat
                       /\ eng' = r.eng
                       /\ heap' = r.heap
                       /\ pending' = IF r.threw THEN pending
                                     ELSE (pending \cup {nextJob})
                                          \ (JobsOf(r.emits, "chunk") \cup JobsOf(r.emits, "error"))
                       /\ errSeen' = (errSeen \/ CountType(r.emits, "error") > 0)
                       /\ afterFlush' = IF r.threw THEN afterFlush
                                        ELSE EncodeAccepted(afterFlush)
                       /\ last' = [L0 EXCEPT !.op = "encode",
                                        !.threw = r.threw,
                                        !.out = JobsOf(r.emits, "chunk"),
                                        !.errs = CountType(r.emits, "error"),
                                        !.willing = env.alloc /\ env.send /\ ~env.rcvErr,
                                        !.ub = r.ub]
            /\ nextJob' = nextJob + 1
            /\ UNCHANGED <<machine, state, config, nativeCreated,
                           flushPending, flushDone, destroyed, nCfg>>

\* VideoEncoder.flush; k: the packets the engine hands out while draining
Flush(k) ==
    /\ ~destroyed
    /\ UNCHANGED <<asyncVars, audioVars, svcVars, restVars>>
    /\ IF FlushRejectsState(state)
       THEN /\ k = 0
            /\ last' = Rejected("flush")
            /\ UNCHANGED <<machine, state, encodeQueueSize, config,
                           nativeCreated, nat, eng, heap, flushPending, flushDone,
                           pending, afterFlush, errSeen, destroyed, nextJob, nCfg>>
       ELSE /\ flushDone + flushPending < MaxFlush
            /\ k <= Len(eng.buf)
            /\ LET r == NativeFlush(nat, eng, heap, k)
                   done == CountType(r.emits, "flush")
               IN /\ encodeQueueSize' = SizeAfter(r.emits, encodeQueueSize)
                  /\ nat' = r.nat
                  /\ eng' = r.eng
                  /\ heap' = r.heap
                  /\ pending' = pending \ JobsOf(r.emits, "chunk")
                  /\ flushPending' = flushPending + 1 - done
                  /\ flushDone' = flushDone + done
                  /\ afterFlush' = IF done > 0 THEN FlushResolved(afterFlush)
                                    ELSE afterFlush
                  /\ last' = [L0 EXCEPT !.op = "flush",
                                        !.out = JobsOf(r.emits, "chunk"),
                                        !.errs = CountType(r.emits, "error"),
                                        !.drainErr = (nat.configured
                                                      /\ nat.codecCtx = "open"
                                                      /\ k < Len(eng.buf))]
            /\ UNCHANGED <<machine, state, config, nativeCreated, errSeen, destroyed,
                           nextJob, nCfg>>

\* VideoEncoder.reset; flushCap: the encoder supports avcodec_flush_buffers
Reset(flushCap) ==
    /\ ~destroyed
    /\ UNCHANGED <<asyncVars, audioVars, svcVars, restVars>>
    /\ IF ResetRejectsState(state)
       THEN /\ flushCap
            /\ last' = Rejected("reset")
            /\ UNCHANGED <<machine, state, encodeQueueSize, config,
                           nativeCreated, nat, eng, heap, flushPending, flushDone,
                           pending, afterFlush, errSeen, destroyed, nextJob, nCfg>>
       ELSE /\ (nat.codecCtx \notin {"open", "alloc"} => flushCap)
            /\ LET r == IF nativeCreated THEN NativeReset(nat, eng, heap, flushCap)
                        ELSE Ret(nat, eng, heap, <<>>, FALSE, 0, 0, FALSE)
               IN /\ nat' = r.nat
                  /\ eng' = r.eng
                  /\ heap' = r.heap
                  /\ last' = [L0 EXCEPT !.op = "reset", !.ub = r.ub]
            /\ encodeQueueSize' = 0
            /\ state' = "unconfigured"
            /\ config' = "null"
            /\ pending' = {}
            /\ afterFlush' = "none"
            /\ errSeen' = FALSE
            /\ UNCHANGED <<machine, nativeCreated, flushPending, flushDone, destroyed, nextJob, nCfg>>

\* VideoEncoder.close
Close ==
    /\ ~destroyed
    /\ UNCHANGED <<asyncVars, audioVars, svcVars, restVars>>
    /\ IF CloseIsNoop(state)
       THEN /\ last' = [L0 EXCEPT !.op = "close", !.noop = TRUE]
            /\ UNCHANGED <<machine, state, encodeQueueSize, config,
                           nativeCreated, nat, eng, heap, flushPending, flushDone,
                           pending, afterFlush, errSeen, destroyed, nextJob, nCfg>>
       ELSE /\ LET r == IF nativeCreated THEN NativeClose(nat, eng, heap)
                        ELSE Ret(nat, eng, heap, <<>>, FALSE, 0, 0, FALSE)
               IN /\ nat' = r.nat
                  /\ eng' = r.eng
                  /\ heap' = r.heap
                  /\ last' = [L0 EXCEPT !.op = "close", !.frees = r.frees]
            /\ state' = "closed"
            /\ encodeQueueSize' = 0
            /\ config' = "null"
            /\ pending' = {}
            /\ afterFlush' = "none"
            /\ errSeen' = FALSE
            /\ UNCHANGED <<machine, nativeCreated, flushPending, flushDone, destroyed, nextJob, nCfg>>

\* The wrapper became unreachable and the native object is finalized
Destroy ==
    /\ ~destroyed
    /\ UNCHANGED <<asyncVars, audioVars, svcVars, restVars>>
    /\ nativeCreated
    /\ LET r == NativeDestroy(nat, eng, heap)
       IN /\ nat' = r.nat
          /\ eng' = r.eng
          /\ heap' = r.heap
          /\ last' = [L0 EXCEPT !.op = "destroy", !.frees = r.frees]
    /\ destroyed' = TRUE
    /\ UNCHANGED <<machine, state, encodeQueueSize, config, nativeCreated,
                   flushPending, flushDone, pending, afterFlush, errSeen, nextJob, nCfg>>

SyncNext ==
    \/ \E cfg \in Configs : Configure(cfg)
    \/ \E frameOk \in BOOLEAN : Encode(frameOk)
    \/ \E k \in 0..Max(MaxJobs, MaxHwJobs) : Flush(k)
    \/ \E flushCap \in BOOLEAN : Reset(flushCap)
    \/ Close
    \/ Destroy

\* ------------------------------------------------- VideoEncoderAsync
\* jobs (encodes and flush markers) pushed in one run
MaxQueued == 3

NoJob == [id |-> 0, isFlush |-> FALSE]

\* EncodeJob
EncodeJob(id, isFlush) == [id |-> id, isFlush |-> isFlush]

\* What a callback can read through the EncodeResult pointer it was given:
\* the result lives on the worker's stack and is gone when the call runs.
ResultReads == {"intact", "clobbered"}

AsyncIdle ==
    /\ running = FALSE
    /\ jobQueue = <<>>
    /\ wpc = "none"
    /\ job = NoJob
    /\ tsfnOutput = <<>>
    /\ tsfnError = <<>>
    /\ tsfnFlush = <<>>
    /\ delivered = <<>>
    /\ enqueued = 0

\* The main thread is not blocked joining the worker
MainThreadFree == running \/ wpc \in {"none", "exit"}

\* VideoEncoderAsync::Configure: opens the encoder and starts the worker
AsyncConfigure ==
    /\ wpc = "none"
    /\ ~running
    /\ running' = TRUE
    /\ wpc' = "top"
    /\ UNCHANGED <<jobQueue, job, tsfnOutput, tsfnError, tsfnFlush, delivered,
                   enqueued>>
    /\ UNCHANGED <<syncVars, audioVars, svcVars, restVars>>

\* VideoEncoderAsync::Encode: push under queueMutex_, notify_one
AsyncEncode ==
    /\ running
    /\ enqueued < MaxQueued
    /\ jobQueue' = Append(jobQueue, EncodeJob(enqueued + 1, FALSE))
    /\ enqueued' = enqueued + 1
    /\ UNCHANGED <<running, wpc, job, tsfnOutput, tsfnError, tsfnFlush, delivered>>
    /\ UNCHANGED <<syncVars, audioVars, svcVars, restVars>>

\* VideoEncoderAsync::Flush: push a flush marker
AsyncFlush ==
    /\ running
    /\ enqueued < MaxQueued
    /\ jobQueue' = Append(jobQueue, EncodeJob(enqueued + 1, TRUE))
    /\ enqueued' = enqueued + 1
    /\ UNCHANGED <<running, wpc, job, tsfnOutput, tsfnError, tsfnFlush, delivered>>
    /\ UNCHANGED <<syncVars, audioVars, svcVars, restVars>>

\* VideoEncoderAsync::Close: stop the worker and wait for it
AsyncClose ==
    /\ running
    /\ running' = FALSE
    /\ UNCHANGED <<jobQueue, wpc, job, tsfnOutput, tsfnError, tsfnFlush,
                   delivered, enqueued>>
    /\ UNCHANGED <<syncVars, audioVars, svcVars, restVars>>

\* WorkerThread: while (running_)
WorkerTop ==
    /\ wpc = "top"
    /\ wpc' = IF running THEN "wait" ELSE "exit"
    /\ UNCHANGED <<running, jobQueue, job, tsfnOutput, tsfnError, tsfnFlush,
                   delivered, enqueued>>
    /\ UNCHANGED <<syncVars, audioVars, svcVars, restVars>>

\* Faulty variant: the wait predicate does not look at running_
WorkerTakeMissesStop ==
    /\ wpc = "wait"
    /\ jobQueue # <<>>
    /\ job' = Head(jobQueue)
    /\ jobQueue' = Tail(jobQueue)
    /\ wpc' = "process"
    /\ UNCHANGED <<running, tsfnOutput, tsfnError, tsfnFlush, delivered, enqueued>>
    /\ UNCHANGED <<syncVars, audioVars, svcVars, restVars>>

\* Faulty variant: the break test after the wait is missing, so a worker woken
\* by the stop signal takes front() of whatever the queue holds; on an empty
\* queue that yields a job that was never enqueued
WorkerTakeWithoutBreak ==
    /\ wpc = "wait"
    /\ jobQueue # <<>> \/ ~running
    /\ IF jobQueue = <<>>
       THEN /\ job' = NoJob
            /\ UNCHANGED jobQueue
       ELSE /\ job' = Head(jobQueue)
            /\ jobQueue' = Tail(jobQueue)
    /\ wpc' = "process"
    /\ UNCHANGED <<running, tsfnOutput, tsfnError, tsfnFlush, delivered, enqueued>>
    /\ UNCHANGED <<syncVars, audioVars, svcVars, restVars>>

\* WorkerThread: queueCV_.wait, then break or take the front job
WorkerTake ==
    /\ wpc = "wait"
    /\ jobQueue # <<>> \/ ~running
    /\ IF ~running /\ jobQueue = <<>>
       THEN /\ wpc' = "exit"
            /\ UNCHANGED <<jobQueue, job>>
       ELSE /\ job' = Head(jobQueue)
            /\ jobQueue' = Tail(jobQueue)
            /\ wpc' = "process"
    /\ UNCHANGED <<running, tsfnOutput, tsfnError, tsfnFlush, delivered, enqueued>>
    /\ UNCHANGED <<syncVars, audioVars, svcVars, restVars>>

\* ProcessEncode; ok: avcodec_send_frame accepts the frame
ProcessEncode(ok) ==
    /\ wpc = "process"
    /\ ~job.isFlush
    /\ IF ok
       THEN /\ tsfnOutput' = Append(tsfnOutput, [type |-> "chunk", job |-> job.id])
            /\ UNCHANGED tsfnError
       ELSE /\ tsfnError' = Append(tsfnError, [type |-> "error", job |-> job.id])
            /\ UNCHANGED tsfnOutput
    /\ wpc' = "top"
    /\ job' = NoJob
    /\ UNCHANGED <<running, jobQueue, tsfnFlush, delivered, enqueued>>
    /\ UNCHANGED <<syncVars, audioVars, svcVars, restVars>>

\* ProcessFlush: the flush-complete result goes out on tsfnFlush_
ProcessFlush ==
    /\ wpc = "process"
    /\ job.isFlush
    /\ tsfnFlush' = Append(tsfnFlush, [type |-> "flush", job |-> job.id])
    /\ wpc' = "top"
    /\ job' = NoJob
    /\ UNCHANGED <<running, jobQueue, tsfnOutput, tsfnError, delivered, enqueued>>
    /\ UNCHANGED <<syncVars, audioVars, svcVars, restVars>>

Received(call, rd) == [type |-> call.type, job |-> call.job, read |-> rd]

\* The event loop runs the next call queued on tsfnOutput_
DispatchOutput ==
    /\ MainThreadFree
    /\ tsfnOutput # <<>>
    /\ \E rd \in ResultReads :
         delivered' = Append(delivered, Received(Head(tsfnOutput), rd))
    /\ tsfnOutput' = Tail(tsfnOutput)
    /\ UNCHANGED <<running, jobQueue, wpc, job, tsfnError, tsfnFlush, enqueued>>
    /\ UNCHANGED <<syncVars, audioVars, svcVars, restVars>>

\* The event loop runs the next call queued on tsfnError_
DispatchError ==
    /\ MainThreadFree
    /\ tsfnError # <<>>
    /\ \E rd \in ResultReads :
         delivered' = Append(delivered, Received(Head(tsfnError), rd))
    /\ tsfnError' = Tail(tsfnError)
    /\ UNCHANGED <<running, jobQueue, wpc, job, tsfnOutput, tsfnFlush, enqueued>>
    /\ UNCHANGED <<syncVars, audioVars, svcVars, restVars>>

\* The event loop runs the next call queued on tsfnFlush_
DispatchFlush ==
    /\ MainThreadFree
    /\ tsfnFlush # <<>>
    /\ delivered' = Append(delivered, Received(Head(tsfnFlush), "intact"))
    /\ tsfnFlush' = Tail(tsfnFlush)
    /\ UNCHANGED <<running, jobQueue, wpc, job, tsfnOutput, tsfnError, enqueued>>
    /\ UNCHANGED <<syncVars, audioVars, svcVars, restVars>>

AsyncNext ==
    \/ AsyncConfigure
    \/ AsyncEncode
    \/ AsyncFlush
    \/ AsyncClose
    \/ WorkerTop
    \/ WorkerTake
    \/ \E ok \in BOOLEAN : ProcessEncode(ok)
    \/ ProcessFlush
    \/ DispatchOutput
    \/ DispatchError
    \/ DispatchFlush

\* ------------------------------------------------------------ AudioDecoder
\* decode() calls accepted in one run
MaxDecodes == 3

\* What the native decoder does with one chunk during decode(): it calls the
\* data callback, calls nothing (it needs more input), or calls the error
\* callback.
DecodeAnswers == {"data", "nothing", "error"}

\* events: the event dispatches and callback calls of the step, in order
AdL0 == [op |-> "none", job |-> 0, threw |-> FALSE, events |-> <<>>]

AudioIdle ==
    /\ adState = "unconfigured"
    /\ adQueueSize = 0
    /\ adConfig = FALSE
    /\ adImmediates = <<>>
    /\ adNext = 1
    /\ adCut = 1
    /\ adLast = AdL0

\* AudioDecoder.configure; ok: the native configure does not throw
AdConfigure(ok) ==
    /\ IF adState = "closed" \/ ~ok
       THEN /\ adLast' = [AdL0 EXCEPT !.op = "configure", !.threw = TRUE]
            /\ UNCHANGED <<adState, adConfig>>
       ELSE /\ adState' = "configured"
            /\ adConfig' = TRUE
            /\ adLast' = [AdL0 EXCEPT !.op = "configure"]
    /\ UNCHANGED <<adQueueSize, adImmediates, adNext, adCut>>
    /\ UNCHANGED <<syncVars, asyncVars, svcVars, restVars>>

\* Faulty variant: _onData runs its body inside the native decode instead of
\* deferring it with setImmediate
AdDecodeInline(ans) ==
    /\ IF adState # "configured"
       THEN /\ ans = "nothing"
            /\ adLast' = [AdL0 EXCEPT !.op = "decode", !.threw = TRUE]
            /\ UNCHANGED <<adQueueSize, adNext>>
       ELSE /\ adNext <= MaxDecodes
            /\ adQueueSize' = IF ans = "data"
                               THEN OnChunkSize(adQueueSize + 1)
                               ELSE adQueueSize + 1
            /\ adNext' = adNext + 1
            /\ adLast' = [AdL0 EXCEPT !.op = "decode", !.job = adNext,
                                      !.events = IF ans = "data"
                                                 THEN <<"dequeue", "output">>
                                                 ELSE <<>>]
    /\ UNCHANGED <<adState, adConfig, adCut, adImmediates>>
    /\ UNCHANGED <<syncVars, asyncVars, svcVars, restVars>>

\* AudioDecoder.decode, with _onData run by the native decode for its output
AdDecode(ans) ==
    /\ IF adState # "configured"
       THEN /\ ans = "nothing"
            /\ adLast' = [AdL0 EXCEPT !.op = "decode", !.threw = TRUE]
            /\ UNCHANGED <<adQueueSize, adImmediates, adNext>>
       ELSE /\ adNext <= MaxDecodes
            /\ adQueueSize' = adQueueSize + 1
            /\ adImmediates' = IF ans = "data" THEN Append(adImmediates, adNext)
                                ELSE adImmediates
            /\ adNext' = adNext + 1
            /\ adLast' = [AdL0 EXCEPT !.op = "decode", !.job = adNext]
    /\ UNCHANGED <<adState, adConfig, adCut>>
    /\ UNCHANGED <<syncVars, asyncVars, svcVars, restVars>>

\* AudioDecoder.flush
AdFlush ==
    /\ adLast' = [AdL0 EXCEPT !.op = "flush", !.threw = (adState # "configured")]
    /\ UNCHANGED <<adState, adQueueSize, adConfig, adImmediates, adNext, adCut>>
    /\ UNCHANGED <<syncVars, asyncVars, svcVars, restVars>>

\* AudioDecoder.reset
AdReset ==
    /\ IF adState = "closed"
       THEN /\ adLast' = [AdL0 EXCEPT !.op = "reset", !.threw = TRUE]
            /\ UNCHANGED <<adState, adQueueSize, adConfig, adCut>>
       ELSE /\ adQueueSize' = 0
            /\ adState' = "unconfigured"
            /\ adConfig' = FALSE
            /\ adCut' = adNext
            /\ adLast' = [AdL0 EXCEPT !.op = "reset"]
    /\ UNCHANGED <<adImmediates, adNext>>
    /\ UNCHANGED <<syncVars, asyncVars, svcVars, restVars>>

\* AudioDecoder.close
AdClose ==
    /\ IF adState = "closed"
       THEN /\ adLast' = [AdL0 EXCEPT !.op = "close"]
            /\ UNCHANGED <<adState, adQueueSize, adConfig, adCut>>
       ELSE /\ adState' = "closed"
            /\ adQueueSize' = 0
            /\ adConfig' = FALSE
            /\ adCut' = adNext
            /\ adLast' = [AdL0 EXCEPT !.op = "close"]
    /\ UNCHANGED <<adImmediates, adNext>>
    /\ UNCHANGED <<syncVars, asyncVars, svcVars, restVars>>

\* The callback _onData queued with setImmediate: the counter goes down and
\* the output callback is called
AdImmediate ==
    /\ adImmediates # <<>>
    /\ adQueueSize' = OnChunkSize(adQueueSize)
    /\ adLast' = [AdL0 EXCEPT !.op = "output", !.job = Head(adImmediates),
                              !.events = <<"dequeue", "output">>]
    /\ adImmediates' = Tail(adImmediates)
    /\ UNCHANGED <<adState, adConfig, adNext, adCut>>
    /\ UNCHANGED <<syncVars, asyncVars, svcVars, restVars>>

AudioNext ==
    \/ \E ok \in BOOLEAN : AdConfigure(ok)
    \/ \E ans \in DecodeAnswers : AdDecode(ans)
    \/ AdFlush
    \/ AdReset
    \/ AdClose
    \/ AdImmediate

\* ------------------------------------------------ scalability requests
KeySuffix == <<"_", "K", "E", "Y">>

\* The scalabilityMode strings a caller may pass
ModeStrings ==
    {<<>>,
     <<"L", "1", "T", "1">>, <<"L", "1", "T", "2">>, <<"L", "1", "T", "3">>,
     <<"L", "1", "T", "4">>, <<"L", "1", "T", "0">>, <<"L", "0", "T", "1">>,
     <<"L", "2", "T", "1">>, <<"L", "2", "T", "2">>, <<"L", "3", "T", "3">>,
     <<"S", "2", "T", "1">>, <<"S", "1", "T", "2">>,
     <<"L", "1", "T", "2", "h">>, <<"L", "1", "T", "2">> \o KeySuffix,
     <<"L", "1", "T", "2", "x">>, <<"L", "1", "T">>, <<"T", "2">>,
     <<"l", "1", "t", "2">>, <<"L", "1", "T", "1", "0">>, <<"x">>}

\* Target bitrates in bit/s
Bitrates == {0, 999, 1500, 500000, 1000000, 1000500, 2000000}

EncoderNames == {"libvpx", "libx264"}

SvcIdle ==
    /\ svcMode = <<>>
    /\ svcBitrate = 0
    /\ svcEncoder = "libvpx"
    /\ svcOut = <<>>

SvcInit ==
    /\ svcMode \in ModeStrings
    /\ svcBitrate \in Bitrates
    /\ svcEncoder \in EncoderNames
    /\ svcOut = <<>>

\* VideoEncoderNative::Configure, as far as scalabilityMode goes
SvcConfigure ==
    /\ svcOut = <<>>
    /\ svcOut' = <<ConfigureScalability(svcMode, svcBitrate, svcEncoder)>>
    /\ UNCHANGED <<svcMode, svcBitrate, svcEncoder>>
    /\ UNCHANGED <<syncVars, asyncVars, audioVars, restVars>>

SvcNext == SvcConfigure

\* ------------------------------------------------- the VideoEncoder wrapper
\* configure() calls, reset()/close() calls and chunks in one run
MaxVeCalls == 5

\* config.useWorkerThread
WorkerThreadOptions == {"undefined", "true", "false"}

VeL0 == [op |-> "none", threw |-> FALSE, key |-> FALSE, meta |-> FALSE,
         useWorkerThread |-> "undefined"]

VeIdle ==
    /\ veAsyncAvailable = TRUE
    /\ veState = "unconfigured"
    /\ veConfig = "null"
    /\ veSentDecoderConfig = FALSE
    /\ veUseAsync = TRUE
    /\ veNativeCreated = FALSE
    /\ veNative = "none"
    /\ veKeys = 0
    /\ veEpoch = 0
    /\ veCalls = 0
    /\ veLast = VeL0

VeInit ==
    /\ veAsyncAvailable \in BOOLEAN
    /\ veState = "unconfigured"
    /\ veConfig = "null"
    /\ veSentDecoderConfig = FALSE
    /\ veUseAsync = TRUE
    /\ veNativeCreated = FALSE
    /\ veNative = "none"
    /\ veKeys = 0
    /\ veEpoch = 0
    /\ veCalls = 0
    /\ veLast = VeL0

\* this._useAsync = config.useWorkerThread !== false && !!native.VideoEncoderAsync
UseAsync(useWorkerThread, asyncAvailable) ==
    useWorkerThread # "false" /\ asyncAvailable

\* The native class configure() instantiates
NativeClass(useAsync) == IF useAsync THEN "async" ELSE "sync"

\* Faulty variant: every key chunk carries the decoder configuration
OnChunkMetadataEveryKey(isKeyframe, sent, cfg) ==
    isKeyframe /\ cfg # "null"

\* _onChunk: whether the chunk carries decoderConfig metadata
OnChunkMetadata(isKeyframe, sent, cfg) ==
    isKeyframe /\ ~sent /\ cfg # "null"

\* VideoEncoder.configure; codecOk: the request passes the wrapper's
\* validation; nativeOk: the native configure() does not throw
VeConfigure(useWorkerThread, codecOk, nativeOk) ==
    /\ veCalls < MaxVeCalls
    /\ veCalls' = veCalls + 1
    /\ (veState = "closed" \/ ~codecOk) => nativeOk
    /\ UNCHANGED veAsyncAvailable
    /\ IF veState = "closed" \/ ~codecOk
       THEN /\ veLast' = [VeL0 EXCEPT !.op = "configure", !.threw = TRUE,
                                      !.useWorkerThread = useWorkerThread]
            /\ UNCHANGED <<veState, veConfig, veSentDecoderConfig, veUseAsync,
                           veNativeCreated, veNative, veKeys, veEpoch>>
       ELSE /\ veUseAsync' = UseAsync(useWorkerThread, veAsyncAvailable)
            /\ veNative' = IF ~veNativeCreated
                           THEN NativeClass(veUseAsync')
                           ELSE veNative
            /\ veNativeCreated' = TRUE
            /\ veLast' = [VeL0 EXCEPT !.op = "configure", !.threw = ~nativeOk,
                                      !.useWorkerThread = useWorkerThread]
            /\ IF nativeOk
               THEN /\ veConfig' = "set"
                    /\ veState' = "configured"
                    /\ veSentDecoderConfig' = FALSE
                    /\ veKeys' = 0
                    /\ veEpoch' = veEpoch + 1
               ELSE UNCHANGED <<veState, veConfig, veSentDecoderConfig,
                                veKeys, veEpoch>>
    /\ UNCHANGED <<syncVars, asyncVars, audioVars, svcVars, veRest>>

\* VideoEncoder.reset
VeReset ==
    /\ veCalls < MaxVeCalls
    /\ veCalls' = veCalls + 1
    /\ IF veState = "closed"
       THEN /\ veLast' = [VeL0 EXCEPT !.op = "reset", !.threw = TRUE]
            /\ UNCHANGED <<veState, veConfig, veSentDecoderConfig, veKeys>>
       ELSE /\ veState' = "unconfigured"
            /\ veSentDecoderConfig' = FALSE
            /\ veConfig' = "null"
            /\ veKeys' = 0
            /\ veLast' = [VeL0 EXCEPT !.op = "reset"]
    /\ UNCHANGED <<veAsyncAvailable, veUseAsync, veNativeCreated, veNative,
                   veEpoch>>
    /\ UNCHANGED <<syncVars, asyncVars, audioVars, svcVars, veRest>>

\* VideoEncoder.close
VeClose ==
    /\ veCalls < MaxVeCalls
    /\ veCalls' = veCalls + 1
    /\ veLast' = [VeL0 EXCEPT !.op = "close"]
    /\ IF veState = "closed"
       THEN UNCHANGED <<veState, veConfig, veKeys>>
       ELSE /\ veState' = "closed"
            /\ veConfig' = "null"
            /\ veKeys' = 0
    /\ UNCHANGED <<veAsyncAvailable, veSentDecoderConfig, veUseAsync,
                   veNativeCreated, veNative, veEpoch>>
    /\ UNCHANGED <<syncVars, asyncVars, audioVars, svcVars, veRest>>

\* VideoEncoder._onChunk, called by the native object: the synchronous one
\* calls it during encode() and flush(), the worker-thread one from a queued
\* call at any later time
VeOnChunk(isKeyframe) ==
    /\ veCalls < MaxVeCalls
    /\ veCalls' = veCalls + 1
    /\ veNative # "none"
    /\ veNative = "sync" => veState = "configured"
    /\ LET meta == OnChunkMetadata(isKeyframe, veSentDecoderConfig, veConfig)
       IN /\ veSentDecoderConfig' = (veSentDecoderConfig \/ meta)
          /\ veLast' = [VeL0 EXCEPT !.op = "chunk", !.key = isKeyframe,
                                    !.meta = meta]
    /\ veKeys' = IF isKeyframe THEN Min(2, veKeys + 1) ELSE veKeys
    /\ UNCHANGED <<veAsyncAvailable, veState, veConfig, veUseAsync,
                   veNativeCreated, veNative, veEpoch>>
    /\ UNCHANGED <<syncVars, asyncVars, audioVars, svcVars, veRest>>

VeNext ==
    \/ \E u \in WorkerThreadOptions, codecOk, nativeOk \in BOOLEAN :
          VeConfigure(u, codecOk, nativeOk)
    \/ VeReset
    \/ VeClose
    \/ \E isKeyframe \in BOOLEAN : VeOnChunk(isKeyframe)

\* ----------------------------------------------- ImageDecoder on a stream
\* Chunks the stream yields before it ends
MaxChunks == 2
\* reset(), close() and decode() calls in one run
MaxImgCalls == 3

ImgL0 == [op |-> "none", threw |-> FALSE]

\* The state the constructor leaves: the reader taken, nothing read
ImgInit ==
    /\ imgNative = "undefined"
    /\ imgComplete = FALSE
    /\ imgClosed = FALSE
    /\ imgStream = "reading"
    /\ imgChunks = 0
    /\ imgCompleted = "pending"
    /\ imgCalls = 0
    /\ imgLast = ImgL0

\* No ImageDecoder in the run
ImgIdle ==
    /\ imgNative = "undefined"
    /\ imgComplete = FALSE
    /\ imgClosed = FALSE
    /\ imgStream = "none"
    /\ imgChunks = 0
    /\ imgCompleted = "pending"
    /\ imgCalls = 0
    /\ imgLast = ImgL0

\* A settled promise stays as it is
Settle(promise, outcome) == IF promise = "pending" THEN outcome ELSE promise

\* _handleReadableStream: read() yields a chunk; valid: it is a BufferSource
ImgReadChunk(valid) ==
    /\ imgStream = "reading"
    /\ imgChunks < MaxChunks
    /\ IF valid
       THEN /\ imgChunks' = imgChunks + 1
            /\ UNCHANGED <<imgStream, imgCompleted>>
       ELSE /\ imgStream' = "failed"
            /\ imgCompleted' = Settle(imgCompleted, "rejected")
            /\ UNCHANGED imgChunks
    /\ imgLast' = [ImgL0 EXCEPT !.op = "chunk"]
    /\ UNCHANGED <<imgNative, imgComplete, imgClosed, imgCalls>>
    /\ UNCHANGED <<syncVars, asyncVars, audioVars, svcVars, imgRest>>

\* _handleReadableStream: read() rejects
ImgReadError ==
    /\ imgStream = "reading"
    /\ imgStream' = "failed"
    /\ imgCompleted' = Settle(imgCompleted, "rejected")
    /\ imgLast' = [ImgL0 EXCEPT !.op = "readError"]
    /\ UNCHANGED <<imgNative, imgComplete, imgClosed, imgChunks, imgCalls>>
    /\ UNCHANGED <<syncVars, asyncVars, audioVars, svcVars, imgRest>>

\* _handleReadableStream: read() reports done, then _initNative; nativeOk:
\* the ImageDecoderNative constructor does not throw; complete: its
\* complete property
ImgReadDone(nativeOk, complete) ==
    /\ imgStream = "reading"
    /\ nativeOk \/ ~complete
    /\ IF nativeOk
       THEN /\ imgNative' = "open"
            /\ imgComplete' = complete
            /\ imgCompleted' = IF complete
                               THEN Settle(imgCompleted, "resolved")
                               ELSE imgCompleted
            /\ imgStream' = "done"
       ELSE /\ imgCompleted' = Settle(imgCompleted, "rejected")
            /\ imgStream' = "failed"
            /\ UNCHANGED <<imgNative, imgComplete>>
    /\ imgLast' = [ImgL0 EXCEPT !.op = "readDone"]
    /\ UNCHANGED <<imgClosed, imgChunks, imgCalls>>
    /\ UNCHANGED <<syncVars, asyncVars, audioVars, svcVars, imgRest>>

\* ImageDecoder.reset: this._native.reset() unless closed
ImgReset ==
    /\ imgStream # "none"
    /\ imgCalls < MaxImgCalls
    /\ imgCalls' = imgCalls + 1
    /\ imgLast' = [ImgL0 EXCEPT !.op = "reset",
                                !.threw = (~imgClosed /\ imgNative = "undefined")]
    /\ UNCHANGED <<imgNative, imgComplete, imgClosed, imgStream, imgChunks,
                   imgCompleted>>
    /\ UNCHANGED <<syncVars, asyncVars, audioVars, svcVars, imgRest>>

\* ImageDecoder.close: _closed = true, then this._native.close()
ImgClose ==
    /\ imgStream # "none"
    /\ imgCalls < MaxImgCalls
    /\ imgCalls' = imgCalls + 1
    /\ IF imgClosed
       THEN /\ imgLast' = [ImgL0 EXCEPT !.op = "close"]
            /\ UNCHANGED <<imgClosed, imgNative>>
       ELSE /\ imgClosed' = TRUE
            /\ imgNative' = IF imgNative = "undefined" THEN "undefined"
                            ELSE "closed"
            /\ imgLast' = [ImgL0 EXCEPT !.op = "close",
                                        !.threw = (imgNative = "undefined")]
    /\ UNCHANGED <<imgComplete, imgStream, imgChunks, imgCompleted>>
    /\ UNCHANGED <<syncVars, asyncVars, audioVars, svcVars, imgRest>>

\* ImageDecoder.decode; ok: the native decode does not throw
ImgDecode(ok) ==
    /\ imgStream # "none"
    /\ imgCalls < MaxImgCalls
    /\ imgCalls' = imgCalls + 1
    /\ (imgClosed \/ ~imgComplete) => ok
    /\ imgLast' = [ImgL0 EXCEPT !.op = "decode",
                               !.threw = (imgClosed \/ ~imgComplete \/ ~ok)]
    /\ UNCHANGED <<imgNative, imgComplete, imgClosed, imgStream, imgChunks,
                   imgCompleted>>
    /\ UNCHANGED <<syncVars, asyncVars, audioVars, svcVars, imgRest>>

ImgNext ==
    \/ \E valid \in BOOLEAN : ImgReadChunk(valid)
    \/ ImgReadError
    \/ \E nativeOk, complete \in BOOLEAN : ImgReadDone(nativeOk, complete)
    \/ ImgReset
    \/ ImgClose
    \/ \E ok \in BOOLEAN : ImgDecode(ok)

\* ------------------------------------------------------------ rate control
\* bitrate_ when the request has no bitrate
DefaultBitrate == 2000000

\* config.bitrateMode; "" when the request has none
BitrateModes == {"", "constant", "variable", "quantizer"}

\* config.bitrate; 0 stands for a request without one
RequestBitrates == {0, 500000, 1000000, 4000000}

\* The rate-control fields of a context from avcodec_alloc_context3; bit_rate
\* is assigned on every path before the context is opened
FreshContext ==
    [bit_rate |-> 0, rc_min_rate |-> 0, rc_max_rate |-> 0, rc_buffer_size |-> 0]

\* bitrate_
RequestedBitrate(req) == IF req.bitrate = 0 THEN DefaultBitrate ELSE req.bitrate

\* bitrateMode_
RequestedMode(req) == IF req.bitrateMode = "" THEN "variable" ELSE req.bitrateMode

\* Configure: rate control of the first context
RateControl(req) ==
    LET b == RequestedBitrate(req)
    IN IF RequestedMode(req) = "constant"
       THEN [FreshContext EXCEPT !.bit_rate = b, !.rc_min_rate = b,
                                 !.rc_max_rate = b, !.rc_buffer_size = b]
       ELSE IF RequestedMode(req) = "quantizer"
       THEN [FreshContext EXCEPT !.bit_rate = 0, !.rc_max_rate = 0]
       ELSE [FreshContext EXCEPT !.bit_rate = b]

\* Configure: the context of the software fallback
FallbackRateControl(req) ==
    [FreshContext EXCEPT !.bit_rate = RequestedBitrate(req)]

\* Configure as far as rate control goes: the first context, and the second
\* one when the hardware encoder does not open and falling back is allowed
ConfigureRateControl(req) ==
    IF req.open1
    THEN [threw |-> FALSE, fallback |-> FALSE, ctx |-> RateControl(req)]
    ELSE IF req.hw /\ FallbackAllowed("HW", req.pref) /\ req.open2
    THEN [threw |-> FALSE, fallback |-> TRUE, ctx |-> FallbackRateControl(req)]
    ELSE [threw |-> TRUE, fallback |-> FALSE, ctx |-> FreshContext]

\* Requests and platform answers; an answer nobody asks for is FALSE
RcRequests ==
    {req \in [bitrate : RequestBitrates, bitrateMode : BitrateModes,
              hw : BOOLEAN, pref : Prefs, open1 : BOOLEAN, open2 : BOOLEAN] :
        /\ req.open2 => (~req.open1 /\ req.hw /\ FallbackAllowed("HW", req.pref))
        /\ ~req.hw => req.pref = "no-preference"
        /\ req.hw => req.pref # "prefer-software"}

RcIdle ==
    /\ rcRequest = [bitrate |-> 0, bitrateMode |-> "", hw |-> FALSE,
                    pref |-> "no-preference", open1 |-> FALSE, open2 |-> FALSE]
    /\ rcOut = <<>>

RcInit ==
    /\ rcRequest \in RcRequests
    /\ rcOut = <<>>

\* VideoEncoderNative::Configure, as far as rate control goes
RcConfigure ==
    /\ rcOut = <<>>
    /\ rcOut' = <<ConfigureRateControl(rcRequest)>>
    /\ UNCHANGED rcRequest
    /\ UNCHANGED <<syncVars, asyncVars, audioVars, svcVars, rcRest>>

RcNext == RcConfigure

\* -------------------------------------------------------------- VideoFrame
\* Calls on one frame in one run
MaxFrameCalls == 3

FrameFormats == {"I420", "RGBA"}
FrameWidths == {2, 4}
FrameHeights == {2, 4}

\* What a getter of a closed frame reads for a number
ClosedDimension == 0

VfL0 == [op |-> "none", layer |-> "none", error |-> "", nativeOp |-> "none",
         nativeError |-> "", freedAccess |-> FALSE,
         value |-> [format |-> "", codedWidth |-> 0, codedHeight |-> 0,
                    displayWidth |-> 0, displayHeight |-> 0,
                    visibleRect |-> ""]]

\* No VideoFrameNative
NoNativeFrame ==
    [frame |-> "null", closed |-> FALSE, frees |-> 0, destroyed |-> TRUE]

\* createVideoFrame: a VideoFrameNative owning a new AVFrame
NewNativeFrame ==
    [frame |-> "live", closed |-> FALSE, frees |-> 0, destroyed |-> FALSE]

\* No VideoFrame in the run
FrameIdle ==
    /\ vfClosed = FALSE
    /\ vfNative = "null"
    /\ vfBuffer = FALSE
    /\ vfFields = [format |-> "I420", codedWidth |-> 2, codedHeight |-> 2,
                   displayWidth |-> 2, displayHeight |-> 2,
                   visibleRect |-> "rect"]
    /\ vfn = NoNativeFrame
    /\ vfCalls = 0
    /\ vfLast = VfL0

\* new VideoFrame(data, init): with a native frame, or in JS-only mode when
\* createVideoFrame threw
FrameInit ==
    /\ vfClosed = FALSE
    /\ vfNative \in {"set", "null"}
    /\ vfBuffer = TRUE
    /\ \E f \in FrameFormats, w \in FrameWidths, h \in FrameHeights :
          vfFields = [format |-> f, codedWidth |-> w, codedHeight |-> h,
                      displayWidth |-> w, displayHeight |-> h,
                      visibleRect |-> "rect"]
    /\ vfn = IF vfNative = "set" THEN NewNativeFrame ELSE NoNativeFrame
    /\ vfCalls = 0
    /\ vfLast = VfL0

\* Faulty variant: the getters read the stored fields whatever _closed is
GettersKeepValues(closed, fields) == fields

\* The getters format, codedWidth, codedHeight, displayWidth, displayHeight
\* and visibleRect
Getters(closed, fields) ==
    [format |-> IF closed THEN "null" ELSE fields.format,
     codedWidth |-> IF closed THEN ClosedDimension ELSE fields.codedWidth,
     codedHeight |-> IF closed THEN ClosedDimension ELSE fields.codedHeight,
     displayWidth |-> IF closed THEN ClosedDimension ELSE fields.displayWidth,
     displayHeight |-> IF closed THEN ClosedDimension ELSE fields.displayHeight,
     visibleRect |-> IF closed THEN "null" ELSE fields.visibleRect]

\* Faulty variant: Close frees the AVFrame through a copy of the pointer and
\* does not set closed_
NativeFrameCloseKeepsOpen(n) ==
    IF ~n.closed /\ n.frame # "null"
    THEN [n EXCEPT !.frame = "dangling", !.frees = @ + 1]
    ELSE n

\* VideoFrameNative::Close
NativeFrameClose(n) ==
    IF ~n.closed /\ n.frame # "null"
    THEN [n EXCEPT !.frame = "null", !.closed = TRUE, !.frees = @ + 1]
    ELSE n

\* VideoFrameNative::~VideoFrameNative
NativeFrameDestroy(n) ==
    IF n.frame # "null" /\ ~n.closed
    THEN [n EXCEPT !.frame = "null", !.frees = @ + 1, !.destroyed = TRUE]
    ELSE [n EXCEPT !.destroyed = TRUE]

\* VideoFrameNative::AllocationSize, CopyTo and Clone: the closed check
NativeFrameError(n) == IF n.closed \/ n.frame = "null" THEN "Frame is closed" ELSE ""

\* They read *frame_ when the check passes
NativeFrameReadsFreed(n) == NativeFrameError(n) = "" /\ n.frame = "dangling"

\* VideoFrame._assertNotClosed
AssertNotClosed(closed) == IF closed THEN "InvalidStateError" ELSE ""

\* The reads of all the getters
VfRead ==
    /\ vfBuffer \/ vfClosed          \* there is a frame in this run
    /\ vfLast' = [VfL0 EXCEPT !.op = "read", !.layer = "ts",
                              !.value = Getters(vfClosed, vfFields)]
    /\ UNCHANGED <<vfClosed, vfNative, vfBuffer, vfFields, vfn, vfCalls>>
    /\ UNCHANGED <<syncVars, asyncVars, audioVars, svcVars, frameRest>>

\* VideoFrame.allocationSize, copyTo (which rejects its promise where the
\* others throw) and clone
VfMethod(op) ==
    /\ vfBuffer \/ vfClosed
    /\ vfCalls < MaxFrameCalls
    /\ vfCalls' = vfCalls + 1
    /\ LET callsNative == ~vfClosed /\ vfNative = "set"
                            /\ op \in {"copyTo", "clone"}
       IN vfLast' = [VfL0 EXCEPT
              !.op = op, !.layer = "ts",
              !.error = IF vfClosed THEN AssertNotClosed(vfClosed)
                        ELSE IF callsNative /\ NativeFrameError(vfn) # ""
                        THEN "Error" ELSE "",
              !.nativeOp = IF callsNative THEN op ELSE "none",
              !.nativeError = IF callsNative THEN NativeFrameError(vfn) ELSE "",
              !.freedAccess = callsNative /\ NativeFrameReadsFreed(vfn)]
    /\ UNCHANGED <<vfClosed, vfNative, vfBuffer, vfFields, vfn>>
    /\ UNCHANGED <<syncVars, asyncVars, audioVars, svcVars, frameRest>>

\* VideoFrame.close
VfClose ==
    /\ vfBuffer \/ vfClosed
    /\ vfCalls < MaxFrameCalls
    /\ vfCalls' = vfCalls + 1
    /\ IF ~vfClosed
       THEN /\ vfn' = IF vfNative = "set" THEN NativeFrameClose(vfn) ELSE vfn
            /\ vfNative' = "null"
            /\ vfBuffer' = FALSE
            /\ vfClosed' = TRUE
            /\ vfLast' = [VfL0 EXCEPT !.op = "close", !.layer = "ts",
                             !.nativeOp = IF vfNative = "set" THEN "close"
                                          ELSE "none"]
       ELSE /\ vfLast' = [VfL0 EXCEPT !.op = "close", !.layer = "ts"]
            /\ UNCHANGED <<vfClosed, vfNative, vfBuffer, vfn>>
    /\ UNCHANGED vfFields
    /\ UNCHANGED <<syncVars, asyncVars, audioVars, svcVars, frameRest>>

\* A call on the VideoFrameNative itself (the object _getNative() hands out):
\* allocationSize, copyTo or clone
VfnMethod(op) ==
    /\ ~vfn.destroyed
    /\ vfCalls < MaxFrameCalls
    /\ vfCalls' = vfCalls + 1
    /\ vfLast' = [VfL0 EXCEPT !.op = op, !.layer = "native", !.nativeOp = op,
                              !.error = NativeFrameError(vfn),
                              !.nativeError = NativeFrameError(vfn),
                              !.freedAccess = NativeFrameReadsFreed(vfn)]
    /\ UNCHANGED <<vfClosed, vfNative, vfBuffer, vfFields, vfn>>
    /\ UNCHANGED <<syncVars, asyncVars, audioVars, svcVars, frameRest>>

\* VideoFrameNative::Close called on the object itself
VfnClose ==
    /\ ~vfn.destroyed
    /\ vfCalls < MaxFrameCalls
    /\ vfCalls' = vfCalls + 1
    /\ vfn' = NativeFrameClose(vfn)
    /\ vfLast' = [VfL0 EXCEPT !.op = "close", !.layer = "native",
                              !.nativeOp = "close"]
    /\ UNCHANGED <<vfClosed, vfNative, vfBuffer, vfFields>>
    /\ UNCHANGED <<syncVars, asyncVars, audioVars, svcVars, frameRest>>

\* The VideoFrameNative is collected once the wrapper has dropped it
VfnDestroy ==
    /\ ~vfn.destroyed
    /\ vfNative = "null"
    /\ vfn' = NativeFrameDestroy(vfn)
    /\ vfLast' = [VfL0 EXCEPT !.op = "destroy", !.layer = "native",
                              !.nativeOp = "destroy"]
    /\ UNCHANGED <<vfClosed, vfNative, vfBuffer, vfFields, vfCalls>>
    /\ UNCHANGED <<syncVars, asyncVars, audioVars, svcVars, frameRest>>

FrameMethods == {"allocationSize", "copyTo", "clone"}

FrameNext ==
    \/ VfRead
    \/ \E op \in FrameMethods : VfMethod(op)
    \/ VfClose
    \/ \E op \in FrameMethods : VfnMethod(op)
    \/ VfnClose
    \/ VfnDestroy

\* ------------------------------------------------------ copyTo with a rect
\* The largest and the smallest int
Int32Max == 2147483647
Int32Min == -2147483647 - 1

\* Values of rect.x, rect.y, rect.width and rect.height
RectValues == {Int32Min, -1, 0, 1, 2, 4, 5, Int32Max}

\* frame_->width and frame_->height
RectFrameSizes == {4}

\* a + b does not fit an int; only asked for a >= 0
SumOverflows(a, b) == b > Int32Max - a

\* if (pos + len > size) len = size - pos; the sum of two ints that does not
\* fit is undefined behaviour, which leaves the test to the build: exceeds
\* is what it makes of the test then
ClampLength(pos, len, size, exceeds) ==
    IF SumOverflows(pos, len)
    THEN (IF exceeds THEN size - pos ELSE len)
    ELSE (IF pos + len > size THEN size - pos ELSE len)

\* if (pos < 0) pos = 0
ClampPosition(pos) == IF pos < 0 THEN 0 ELSE pos

\* CopyTo: clamp rect to frame bounds
ClampRect(in, exceedsW, exceedsH) ==
    LET rectX == ClampPosition(in.x)
        rectY == ClampPosition(in.y)
    IN [rectX |-> rectX,
        rectY |-> rectY,
        rectW |-> ClampLength(rectX, in.w, in.frameW, exceedsW),
        rectH |-> ClampLength(rectY, in.h, in.frameH, exceedsH)]

\* CopyTo with the frame's own format: a direct copy when the rect is the
\* whole frame; otherwise sws_getContext, which refuses sizes below 1, and
\* then the source slices at the rect's offset
CopyToPath(in, r) ==
    IF r.rectX = 0 /\ r.rectY = 0 /\ r.rectW = in.frameW /\ r.rectH = in.frameH
    THEN "direct"
    ELSE IF r.rectW < 1 \/ r.rectH < 1
    THEN "threw"
    ELSE "slices"

RectIdle ==
    /\ rectIn = [frameW |-> 4, frameH |-> 4, x |-> 0, y |-> 0, w |-> 4, h |-> 4]
    /\ rectOut = <<>>

RectInit ==
    /\ rectIn \in [frameW : RectFrameSizes, frameH : RectFrameSizes,
                   x : RectValues, y : RectValues,
                   w : RectValues, h : RectValues]
    /\ rectOut = <<>>

\* VideoFrameNative::CopyTo, as far as the rect goes
RectCopyTo(exceedsW, exceedsH) ==
    /\ rectOut = <<>>
    /\ exceedsW => SumOverflows(ClampPosition(rectIn.x), rectIn.w)
    /\ exceedsH => SumOverflows(ClampPosition(rectIn.y), rectIn.h)
    /\ LET r == ClampRect(rectIn, exceedsW, exceedsH)
       IN rectOut' = <<[rect |-> r, path |-> CopyToPath(rectIn, r)]>>
    /\ UNCHANGED rectIn
    /\ UNCHANGED <<syncVars, asyncVars, audioVars, svcVars, rectRest>>

RectNext == \E exceedsW, exceedsH \in BOOLEAN : RectCopyTo(exceedsW, exceedsH)

\* Every part added after the scalability run, before its first call
RestIdle == VeIdle /\ ImgIdle /\ RcIdle /\ FrameIdle /\ RectIdle

\* ---------------------------------------------------------- specifications
\* The session on the synchronous encoder
Init == SyncInit /\ AsyncIdle /\ AudioIdle /\ SvcIdle /\ RestIdle
Next == SyncNext
Spec == Init /\ [][Next]_vars

\* The session on the worker thread
AsyncInit == SyncInit /\ machine = "software" /\ AsyncIdle /\ AudioIdle /\ SvcIdle /\ RestIdle
SpecAsync == AsyncInit /\ [][AsyncNext]_vars

\* The worker is an operating-system thread: it is scheduled again and again,
\* and the engine call of a job returns.
SpecAsyncFair ==
    /\ AsyncInit
    /\ [][AsyncNext]_vars
    /\ WF_vars(WorkerTop)
    /\ WF_vars(WorkerTake)
    /\ WF_vars(\E ok \in BOOLEAN : ProcessEncode(ok))
    /\ WF_vars(ProcessFlush)

\* The AudioDecoder
AudioInit == SyncInit /\ machine = "software" /\ AsyncIdle /\ AudioIdle /\ SvcIdle /\ RestIdle

\* The scalability part of Configure on every request
SvcSpecInit == SyncInit /\ machine = "software" /\ AsyncIdle /\ AudioIdle /\ SvcInit /\ RestIdle
SpecSvc == SvcSpecInit /\ [][SvcNext]_vars
SpecAudio == AudioInit /\ [][AudioNext]_vars

\* The VideoEncoder wrapper with either native class
\* The parts before the wrapper part, idle
BaseIdle == SyncInit /\ machine = "software" /\ AsyncIdle /\ AudioIdle /\ SvcIdle
VeSpecInit == BaseIdle /\ VeInit /\ ImgIdle /\ RcIdle /\ FrameIdle /\ RectIdle
SpecWrapper == VeSpecInit /\ [][VeNext]_vars

\* An ImageDecoder reading its data from a stream
ImgSpecInit == BaseIdle /\ VeIdle /\ ImgInit /\ RcIdle /\ FrameIdle /\ RectIdle
SpecImage == ImgSpecInit /\ [][ImgNext]_vars

\* The rate-control part of Configure on every request
RcSpecInit == BaseIdle /\ VeIdle /\ ImgIdle /\ RcInit /\ FrameIdle /\ RectIdle
SpecRate == RcSpecInit /\ [][RcNext]_vars

\* One VideoFrame with the VideoFrameNative it wraps
FrameSpecInit == BaseIdle /\ VeIdle /\ ImgIdle /\ RcIdle /\ FrameInit /\ RectIdle
SpecFrame == FrameSpecInit /\ [][FrameNext]_vars

\* The rect clamping of CopyTo on every rect
RectSpecInit == BaseIdle /\ VeIdle /\ ImgIdle /\ RcIdle /\ FrameIdle /\ RectInit
SpecRect == RectSpecInit /\ [][RectNext]_vars

\* ------------------------------------------------------------- properties
\* The job of the last accepted encode() call
LastJob == nextJob - 1

\* C1: flush() completes only after every job enqueued before it has had its
\* result delivered: when a flush() has resolved, no job accepted before it
\* is still waiting for its output or error.
C1_FlushAfterEarlierJobs ==
    (last.op = "flush" /\ ~last.threw) => pending = {}

\* C2: the results of the jobs of one session are delivered in the order in
\* which the jobs were enqueued.
C2_DeliveredInEnqueueOrder ==
    \A i, j \in 1..Len(delivered) :
        i < j => delivered[i].job < delivered[j].job

C4_EncodeAfterFlushAccepted ==
    (last.op = "encode" /\ last.willing /\ afterFlush = "encoded"
        /\ nat.codecCtx = "open")
    => /\ last.errs = 0
       /\ LastJob \in last.out \cup Range(eng.buf)

\* C5: the pending-job counter is 0 exactly when no accepted job is still
\* waiting for its result.
C5_CounterZeroIffIdle ==
    (encodeQueueSize = 0) <=> (pending = {})

\* C6: a second close() changes nothing: it releases nothing, throws nothing
\* and calls no callback, and neither it nor the destructor that runs after
\* close() releases anything a second time.
C6_CloseTwice ==
    [][ /\ ~heap'.doubleFree
        /\ (state = "closed" /\ last'.op = "close" =>
               /\ last'.noop /\ ~last'.threw /\ last'.frees = 0
               /\ last'.out = {} /\ last'.errs = 0
               /\ UNCHANGED <<state, encodeQueueSize, config, nat, eng, heap,
                              flushPending, flushDone, pending>>)
        /\ (state = "closed" /\ last'.op = "destroy" =>
               last'.frees = 0 /\ heap' = heap)
      ]_vars

C6_Witness ==
    /\ state = "closed"
    /\ last.op = "close"
    /\ last.noop
    /\ nCfg > 0
    /\ nextJob > 1

\* C7: 'closed' is terminal: configure(), encode(), flush() and reset() on a
\* closed session throw, leave the state 'closed', accept no job and do not
\* touch the native encoder or the engine.
C7_ClosedIsTerminal ==
    [][state = "closed" =>
          /\ state' = "closed"
          /\ UNCHANGED <<nat, eng, heap, encodeQueueSize, pending, nextJob,
                         nCfg, flushPending, flushDone>>
          /\ (last'.op \in {"configure", "encode", "flush", "reset"}
                 => last'.threw)
      ]_vars

C7_Witness ==
    /\ state = "closed"
    /\ last.op = "encode"
    /\ last.threw
    /\ nCfg > 0

\* C8: an encode() the engine answers with an error reports it through the
\* error callback without throwing and leaves the session configured with its
\* engine handle still held (open, or allocated and never opened when a
\* reconfigure threw on the scalability mode); a later encode() the engine
\* accepts is not answered with an error, and its frame is turned into a chunk
\* or held by the engine.
C8_JobErrorKeepsSession ==
    /\ (last.op = "encode" /\ last.errs > 0 =>
           /\ ~last.threw
           /\ state = "configured"
           /\ nat.configured
           /\ nat.codecCtx \in {"open", "alloc"})
    /\ (last.op = "encode" /\ last.willing /\ errSeen /\ afterFlush = "none"
           /\ nat.codecCtx = "open" =>
           /\ ~last.threw
           /\ last.errs = 0
           /\ LastJob \in last.out \cup Range(eng.buf))

C8_Witness ==
    /\ last.op = "encode"
    /\ last.willing
    /\ errSeen
    /\ afterFlush = "none"
    /\ LastJob \in last.out

\* C9 as stated: whenever the first open fails and the preference is not
\* prefer-hardware, the engine is opened a second time.
C9_RetryWheneverOpenFails ==
    (last.op = "configure" /\ last.opens >= 1 /\ ~last.open1
        /\ last.pref # "prefer-hardware")
    => last.opens = 2

\* C9: configure() opens the engine a second time exactly when the first open,
\* made with a hardware encoder, failed, the preference is not prefer-hardware
\* and a software encoder exists; the accelerator contexts are released before
\* that, a failure of the second open is thrown, and the engine is never
\* opened more than twice.
C9_FallbackOnce ==
    last.op = "configure" =>
        /\ last.opens <= 2
        /\ (last.opens = 2 <=>
               /\ last.hwFirst
               /\ ~last.open1
               /\ last.pref # "prefer-hardware"
               /\ last.swSel)
        /\ (last.opens = 2 =>
               nat.hwDeviceCtx = "null" /\ nat.hwFramesCtx = "null")
        /\ (last.opens = 2 /\ ~last.open2 => last.threw)
        /\ (last.pref = "prefer-hardware" => last.opens <= 1)

C9_Witness ==
    /\ last.op = "configure"
    /\ last.opens = 2
    /\ ~last.open2
    /\ last.threw
    /\ last.frees >= 3

\* C10: when the open of the selected hardware encoder fails, the preference
\* is not prefer-hardware and the software encoder opens, configure() succeeds
\* on the software encoder with hwType_ None and no device or frames context.
C10_FallbackToSoftware ==
    (last.op = "configure" /\ last.hwFirst /\ ~last.open1
        /\ last.pref # "prefer-hardware" /\ last.swSel /\ last.open2)
    => /\ ~last.threw
       /\ state = "configured"
       /\ nat.configured
       /\ nat.codecCtx = "open"
       /\ nat.codec = "sw"
       /\ nat.hwType = "None"
       /\ nat.hwDeviceCtx = "null"
       /\ nat.hwFramesCtx = "null"

C10_Witness ==
    /\ last.op = "configure"
    /\ last.opens = 2
    /\ ~last.threw
    /\ last.frees >= 2
    /\ state = "configured"
    /\ nat.hwType = "None"

\* C11: a configure() that fails at the engine open throws and leaves the
\* session not configured: state 'unconfigured', no engine handle, and the
\* native encoder not marked configured (so that encode() is refused).
C11_FailedOpenLeavesUnconfigured ==
    (last.op = "configure" /\ last.threw /\ last.opens >= 1) =>
        /\ state = "unconfigured"
        /\ nat.codecCtx = "null"
        /\ ~nat.configured

\* C12: encode() and flush() on a session that is not 'configured' throw and
\* change nothing: state, stored configuration, pending counter and pending
\* jobs stay as they are and the native encoder and the engine are untouched.
C12_WrongStateNoEffect ==
    [][(state # "configured" /\ last'.op \in {"encode", "flush"}) =>
          /\ last'.threw
          /\ UNCHANGED <<state, config, encodeQueueSize, pending, nextJob,
                         nat, eng, heap, flushPending, flushDone>>
      ]_vars

C12_Witness ==
    /\ state = "unconfigured"
    /\ nCfg > 0
    /\ nextJob > 1
    /\ last.op = "encode"
    /\ last.threw

\* C13: right after a successful configure() the pending counter is 0 and the
\* state is 'configured'.
C13_CounterZeroAfterConfigure ==
    (last.op = "configure" /\ ~last.threw) =>
        encodeQueueSize = 0 /\ state = "configured"

\* C14: reset() on a session that is not closed does not throw and leaves the
\* state 'unconfigured', the pending counter 0 and no stored configuration;
\* on a closed session it throws and changes nothing.
C14_Reset ==
    [][last'.op = "reset" =>
          IF state = "closed"
          THEN /\ last'.threw
               /\ UNCHANGED <<state, config, encodeQueueSize, pending, nat,
                              eng, heap>>
          ELSE /\ ~last'.threw
               /\ state' = "unconfigured"
               /\ encodeQueueSize' = 0
               /\ config' = "null"
      ]_vars

C14_Witness ==
    /\ last.op = "reset"
    /\ ~last.threw
    /\ nextJob > 1
    /\ state = "unconfigured"
    /\ encodeQueueSize = 0
    /\ config = "null"

\* C15: after reset() returns the session holds no codec context.
C15_ResetReleasesHandle ==
    (last.op = "reset" /\ ~last.threw) =>
        nat.codecCtx = "null" /\ heap.ctx = 0

\* C17: the session never has more than one codec context allocated, and has
\* exactly one while its state is 'configured'.
C17_OneHandle ==
    /\ heap.ctx <= 1
    /\ (state = "configured" => heap.ctx = 1 /\ nat.codecCtx = "open")

\* C16: after reset() or close() has returned, the output callback is not
\* called for a job submitted before that call.
C16_NoOutputAfterDiscard ==
    adLast.op = "output" => adLast.job >= adCut

\* The configuration the session resolved: the stored VideoEncoderConfig and
\* the native encoder's dimensions, encoder and accelerator type
ResolvedConfig == <<config, nat.width, nat.codec, nat.hwType>>

\* C18: while the session is 'configured', no operation other than reset()
\* (or close()) changes the resolved configuration.
C18_ConfigImmutable ==
    [][(state = "configured" /\ last'.op \notin {"reset", "close"}) =>
          ResolvedConfig' = ResolvedConfig
      ]_vars

\* C19: once close() has set the stop flag, the worker takes no further job
\* from the queue to process it.
C19_NoDispatchAfterStop ==
    [][(~running /\ wpc # "none") =>
          ~(wpc # "process" /\ wpc' = "process")
      ]_vars

C22_DrainErrorReported ==
    (last.op = "flush" /\ last.drainErr) => last.errs >= 1

\* C23: every result a callback receives on the caller thread is read from
\* memory the result owns: no callback reads a result object the worker has
\* already given up.
C23_ResultsOwnPayload ==
    \A i \in 1..Len(delivered) : delivered[i].read = "intact"

\* The strings that denote one spatial layer, no simulcast and 1 to 3
\* temporal layers
DenotesTemporalOnly(mode) ==
    /\ RegexMatches(mode)
    /\ mode[1] = "L"
    /\ mode[2] = "1"
    /\ mode[4] \in {"1", "2", "3"}

\* C26: a scalabilityMode string is accepted only when it is empty or denotes
\* one spatial layer, no simulcast and 1 to 3 temporal layers; for every
\* other string, malformed ones included, isScalabilityModeSupported is false
\* and Configure throws.
C26_OnlyTemporalModesAccepted ==
    svcOut # <<>> =>
        /\ (isScalabilityModeSupported(svcMode)
              <=> (svcMode = <<>> \/ DenotesTemporalOnly(svcMode)))
        /\ (svcOut[1].threw
              <=> ~(svcMode = <<>> \/ DenotesTemporalOnly(svcMode)))

\* C27 as stated: the per-layer target bitrates are exactly 60% and 100% of
\* the bitrate with decimation 2:1 for 2 layers, and 25%, 50% and 100% with
\* decimation 4:2:1 for 3 layers.
C27_ExactShares ==
    (svcOut # <<>> /\ ~svcOut[1].threw) =>
        LET ts == svcOut[1].ts
            B == svcBitrate
        IN /\ (svcOut[1].temporalLayers = 2 =>
                  /\ ts.layers = 2
                  /\ ts.decimators = <<2, 1>>
                  /\ 10 * 1000 * ts.bitrates[1] = 6 * B
                  /\ 1000 * ts.bitrates[2] = B)
           /\ (svcOut[1].temporalLayers = 3 =>
                  /\ ts.layers = 3
                  /\ ts.decimators = <<4, 2, 1>>
                  /\ 100 * 1000 * ts.bitrates[1] = 25 * B
                  /\ 10 * 1000 * ts.bitrates[2] = 5 * B
                  /\ 1000 * ts.bitrates[3] = B)

\* x is the share num/den of bitrate B in whole kbit/s, rounded down
IsShareInKbps(x, B, num, den) ==
    /\ den * 1000 * x <= num * B
    /\ num * B < den * 1000 * (x + 1)

\* C27: on a libvpx encoder the per-layer targets are the table's shares of
\* the bitrate in whole kbit/s, rounded down: 60% and 100% with decimation 2:1
\* for 2 layers, 25%, 50% and 100% with decimation 4:2:1 for 3 layers; 2
\* layers at 1,000,000 bit/s give 600 and 1000 kbit/s. Other encoders get no
\* per-layer bitrates.
C27_SplitTable ==
    (svcOut # <<>> /\ ~svcOut[1].threw) =>
        LET ts == svcOut[1].ts
            B == svcBitrate
        IN /\ (svcEncoder = "libvpx" /\ svcOut[1].temporalLayers = 2 =>
                  /\ ts.layers = 2
                  /\ ts.decimators = <<2, 1>>
                  /\ IsShareInKbps(ts.bitrates[1], B, 6, 10)
                  /\ IsShareInKbps(ts.bitrates[2], B, 1, 1)
                  /\ (B = 1000000 => ts.bitrates = <<600, 1000>>))
           /\ (svcEncoder = "libvpx" /\ svcOut[1].temporalLayers = 3 =>
                  /\ ts.layers = 3
                  /\ ts.decimators = <<4, 2, 1>>
                  /\ IsShareInKbps(ts.bitrates[1], B, 25, 100)
                  /\ IsShareInKbps(ts.bitrates[2], B, 5, 10)
                  /\ IsShareInKbps(ts.bitrates[3], B, 1, 1))
           /\ (svcEncoder # "libvpx" \/ svcOut[1].temporalLayers = 1 =>
                  ts = NoTsParameters)

C27_Witness ==
    /\ svcOut # <<>>
    /\ svcMode = <<"L", "1", "T", "2">>
    /\ svcBitrate = 1000000
    /\ svcEncoder = "libvpx"
    /\ svcOut[1].ts.bitrates = <<600, 1000>>
    /\ svcOut[1].ts.decimators = <<2, 1>>

\* C25: a configure() that fails for a configuration error (invalid
\* dimensions, unsupported scalabilityMode) creates no engine or accelerator
\* resource: the session holds the allocations and contexts it held before.
C25_ConfigErrorBeforeResources ==
    [][(last'.op = "configure" /\ last'.why \in {"dims", "svc"}) =>
          /\ heap' = heap
          /\ nat'.codecCtx = nat.codecCtx
          /\ nat'.hwDeviceCtx = nat.hwDeviceCtx
          /\ nat'.hwFramesCtx = nat.hwFramesCtx
      ]_vars

\* C28: a configure() that fails because no encoder is known for the codec
\* identifier leaves the state, the stored configuration, the stored
\* dimensions, the pending counter and the engine handle as they were.
C28_UnknownCodecNoPartialState ==
    [][(last'.op = "configure" /\ last'.why \in {"codec", "lookup"}) =>
          /\ UNCHANGED <<state, config, encodeQueueSize, eng, heap>>
          /\ nat' = nat
      ]_vars

\* C29: when createHWDeviceContext returns null for the selected accelerator
\* and configure() succeeds, the session runs the software encoder and reports
\* no accelerator.
C29_NullDeviceMeansSoftware ==
    (last.op = "configure" /\ last.devNull /\ ~last.threw) =>
        nat.codec = "sw" /\ nat.hwType = "None"

\* C30: the pending counters are never negative, also when a result arrives
\* after reset() or close() has set the counter to 0.
C30_CounterNeverNegative ==
    encodeQueueSize >= 0 /\ adQueueSize >= 0

C30_Witness ==
    /\ adLast.op = "output"
    /\ adLast.job < adCut
    /\ adQueueSize = 0


\* C31: in the synchronous native encoder configured_ is true only while
\* codecCtx_ refers to a successfully opened codec context, and no encode()
\* or flush() dereferences a null, freed or never-opened handle.
C31_ConfiguredMeansOpen ==
    /\ (nat.configured => nat.codecCtx = "open")
    /\ (last.op \in {"encode", "flush"} => ~last.ub)


\* C32: the worker never reads the front of an empty job queue: every step
\* that takes it from the wait to processing a job starts with a non-empty
\* queue and takes that queue's front job, also when the stop signal woke it.
C32_NeverFrontOfEmpty ==
    [][(wpc = "wait" /\ wpc' = "process") =>
          /\ jobQueue # <<>>
          /\ job' = Head(jobQueue)
          /\ jobQueue' = Tail(jobQueue)]_vars

\* The worker took the last queued job after close() raised the stop signal
C32_Witness ==
    /\ ~running
    /\ wpc = "process"
    /\ job.id = enqueued
    /\ jobQueue = <<>>
    /\ enqueued >= 2


\* C33: within one configuration (from a successful configure() until the
\* next successful configure(), reset() or close()) a delivered chunk carries
\* decoderConfig metadata exactly when it is the first key chunk delivered in
\* that configuration; chunks delivered while unconfigured or closed carry
\* none.
C33_FirstKeyCarriesConfig ==
    veLast.op = "chunk" =>
        (veLast.meta <=>
            (veLast.key /\ veState = "configured" /\ veKeys = 1))

\* The first key chunk after a reconfigure carries the metadata again
C33_Witness ==
    /\ veLast.op = "chunk"
    /\ veLast.meta
    /\ veEpoch = 2

\* C34: after each successful configure(config) the native object in use is
\* the worker-thread encoder unless config.useWorkerThread is false or the
\* class is unavailable, and the synchronous one otherwise.
C34_NativeMatchesMode ==
    (veLast.op = "configure" /\ ~veLast.threw) =>
        veNative = NativeClass(UseAsync(veLast.useWorkerThread, veAsyncAvailable))


\* C35: when AudioDecoder.decode() returns, decodeQueueSize is at least 1 and
\* no 'dequeue' event or output callback has run during the call; the
\* decrement, the 'dequeue' event and the output callback of a decoded chunk
\* run in a later turn, the event before the callback.
C35_DequeueAfterDecodeReturns ==
    /\ (adLast.op = "decode" /\ ~adLast.threw =>
           /\ adQueueSize >= 1
           /\ adLast.events = <<>>)
    /\ (adLast.op = "output" => adLast.events = <<"dequeue", "output">>)
    /\ \A i \in 1..Len(adImmediates) : adImmediates[i] < adNext

\* decode() has returned with its output still waiting for its turn
C35_Witness ==
    /\ adLast.op = "decode"
    /\ ~adLast.threw
    /\ adImmediates # <<>>
    /\ adImmediates[Len(adImmediates)] = adLast.job
    /\ adQueueSize = 2


\* C36: for an ImageDecoder constructed from a ReadableStream, close() and
\* reset() never throw, whatever the stream reading has got to, and once
\* close() has been called no native decoder is open.
C36_CloseDuringStream ==
    /\ (imgLast.op \in {"reset", "close"} => ~imgLast.threw)
    /\ (imgClosed => imgNative # "open")


\* C37: the engine handle a successful configure() leaves open has the
\* rate-control settings of the requested bitrate mode (constant: bit rate =
\* min rate = max rate = target; quantizer: bit rate 0; variable: the target
\* bit rate and no rate limits), whether it was opened at the first attempt
\* or by the software fallback.
C37_RateControlOnEveryPath ==
    (rcOut # <<>> /\ ~rcOut[1].threw) =>
        LET ctx == rcOut[1].ctx
            target == RequestedBitrate(rcRequest)
            mode == RequestedMode(rcRequest)
        IN /\ mode = "constant" =>
                /\ ctx.bit_rate = target
                /\ ctx.rc_min_rate = target
                /\ ctx.rc_max_rate = target
           /\ mode = "quantizer" => ctx.bit_rate = 0
           /\ mode = "variable" =>
                /\ ctx.bit_rate = target
                /\ ctx.rc_min_rate = 0
                /\ ctx.rc_max_rate = 0


C39_FrameFreedOnce ==
    /\ vfn.frees <= 1
    /\ ~vfLast.freedAccess
    /\ (vfn.closed /\ vfLast.nativeOp \in FrameMethods) =>
           vfLast.nativeError = "Frame is closed"

\* A native frame that close() had closed was destroyed after at least two
\* calls: its AVFrame was freed by close() alone
C39_Witness ==
    /\ vfn.destroyed
    /\ vfn.closed
    /\ vfn.frees = 1
    /\ vfCalls >= 2
    /\ vfLast.op = "destroy"


\* C40: after copyTo's rect clamping the crop rectangle lies inside the frame
\* for every integer rect: 0 <= rectX, 0 <= rectY, rectW > 0, rectH > 0,
\* rectX + rectW <= frame width and rectY + rectH <= frame height.
C40_RectInsideFrame ==
    rectOut # <<>> =>
        LET r == rectOut[1].rect
        IN /\ 0 <= r.rectX
           /\ 0 <= r.rectY
           /\ r.rectW > 0
           /\ r.rectH > 0
           /\ r.rectW <= rectIn.frameW - r.rectX
           /\ r.rectH <= rectIn.frameH - r.rectY

====
